---- MODULE Spec2Model ----
(***************************************************************************)
(* The Economic Scheduler of THE GRID PLATFORM (core/scheduler,            *)
(* core/cost-engine): the node registry and the job state store, each      *)
(* behind its own mutex, the cost model, and EconomicScheduler::schedule   *)
(* cut into the steps between which other callers can run (each step is    *)
(* one critical section of one mutex, or the lock-free evaluation loop).   *)
(*                                                                         *)
(* Option<T> is modelled as a sequence: None is << >>, Some(x) is <<x>>.   *)
(* f64 costs are modelled in whole cost units 0 .. F64_MAX, where F64_MAX  *)
(* stands for f64::MAX, the largest finite value; INFINITY is the value a  *)
(* product or sum takes when it exceeds F64_MAX. Cost inputs follow the    *)
(* data model (cost_per_hour is a float >= 0), so no NaN is modelled.      *)
(***************************************************************************)
EXTENDS Integers, Sequences, FiniteSets, TLC

VARIABLES available_nodes, job_states, pc, job, nodes, best_placement, result,
          lock, ext_pc, observed, agent, executor, docker

\* lock: the holder of each of the two mutexes; ext_pc: the position of each
\* caller of the other operations; observed: the values the read operations
\* returned since the last write; agent: the WorkerAgent of the worker
\* process and its position in run; executor: a JobExecutor call in progress;
\* docker: the containers the Docker daemon of the worker holds

vars == <<available_nodes, job_states, pc, job, nodes, best_placement, result,
          lock, ext_pc, observed, agent, executor, docker>>

\* the state of the scheduler process and the state of the worker process
scheduler_vars ==
    <<available_nodes, job_states, pc, job, nodes, best_placement, result,
      lock, ext_pc, observed>>

worker_vars == <<agent, executor, docker>>

(***************************************************************************)
(* Bounds of the model.                                                    *)
(***************************************************************************)
\* largest retry ceiling (TGP_MAX_RETRIES) of a worker
MaxRetries == 3

\* number of schedule calls that may run concurrently
MaxCalls == 2

Calls == 1..MaxCalls

\* number of status reads followed between two writes
MaxReads == 2

\* the two mutexes of EconomicScheduler
Mutexes == {"job_states", "available_nodes"}

\* one concurrent caller of each of the other operations
Externals == {"register_node", "get_job_state", "update_job_state"}

(***************************************************************************)
(* Option<T>                                                               *)
(***************************************************************************)
None == << >>

Some(x) == <<x>>

IsSome(o) == Len(o) = 1

Unwrap(o) == o[1]

(***************************************************************************)
(* f64 arithmetic as the cost engine uses it (non-negative operands; the   *)
(* only products with a zero factor that schedule forms are 0.0 * 0.0).    *)
(***************************************************************************)
\* f64::MAX, the initial value of the running minimum in schedule
F64_MAX == 9

INFINITY == F64_MAX + 1

FMul(a, b) ==
    IF a = 0 \/ b = 0 THEN 0
    ELSE IF a = INFINITY \/ b = INFINITY \/ a * b > F64_MAX THEN INFINITY
    ELSE a * b

FAdd(a, b) ==
    IF a = INFINITY \/ b = INFINITY \/ a + b > F64_MAX THEN INFINITY
    ELSE a + b

(***************************************************************************)
(* core/cost-engine: TotalCost and CostCalculator                          *)
(***************************************************************************)
\* TotalCost::new leaving the idle cost out of the total
TotalCost_new_no_idle(compute, data_transfer, idle) ==
    [ compute_usd          |-> compute,
      data_transfer_usd    |-> data_transfer,
      idle_opportunity_usd |-> idle,
      total_usd            |-> FAdd(compute, data_transfer) ]

TotalCost_new(compute, data_transfer, idle) ==
    [ compute_usd          |-> compute,
      data_transfer_usd    |-> data_transfer,
      idle_opportunity_usd |-> idle,
      total_usd            |-> FAdd(FAdd(compute, data_transfer), idle) ]

compute_cost(instance_price_per_hour, duration_hours, utilization_factor) ==
    FMul(FMul(instance_price_per_hour, duration_hours), utilization_factor)

data_transfer_cost(data_size_gb, transfer_price_per_gb) ==
    FMul(data_size_gb, transfer_price_per_gb)

idle_opportunity_cost(idle_capacity_hours, opportunity_cost_per_hour) ==
    FMul(idle_capacity_hours, opportunity_cost_per_hour)

total_cost(instance_price_per_hour, duration_hours, utilization_factor, data_size_gb, transfer_price_per_gb, idle_capacity_hours, opportunity_cost_per_hour) ==
    LET compute == compute_cost(instance_price_per_hour, duration_hours,
                                utilization_factor)
        data_transfer == data_transfer_cost(data_size_gb, transfer_price_per_gb)
        idle == idle_opportunity_cost(idle_capacity_hours,
                                      opportunity_cost_per_hour)
    IN  TotalCost_new(compute, data_transfer, idle)

(***************************************************************************)
(* core/scheduler: the checks and estimates of schedule                    *)
(***************************************************************************)
\* check_resource_fit without the GPU comparison
check_resource_fit_no_gpu(required, node) ==
    /\ node.available_cpu >= required.cpu_cores
    /\ node.available_memory_gb >= required.memory_gb

\* check_resource_fit that also asks for disk, 100 GB per GB of memory
check_resource_fit_disk(required, node) ==
    /\ node.available_cpu >= required.cpu_cores
    /\ node.available_memory_gb >= required.memory_gb
    /\ node.available_gpu >= required.gpu_count
    /\ node.available_memory_gb * 100 >= required.disk_gb

check_resource_fit(required, node) ==
    /\ node.available_cpu >= required.cpu_cores
    /\ node.available_memory_gb >= required.memory_gb
    /\ node.available_gpu >= required.gpu_count

\* estimate_latency with a third pressure term for nodes without a GPU
estimate_latency_gpu_pressure(node) ==
    LET base_latency == 50
        cpu_pressure == IF node.available_cpu < 2 THEN 50 ELSE 0
        mem_pressure == IF node.available_memory_gb < 2 THEN 30 ELSE 0
        gpu_pressure == IF node.available_gpu < 1 THEN 20 ELSE 0
    IN  base_latency + cpu_pressure + mem_pressure + gpu_pressure

estimate_latency(node) ==
    LET base_latency == 50
        cpu_pressure == IF node.available_cpu < 2 THEN 50 ELSE 0
        mem_pressure == IF node.available_memory_gb < 2 THEN 30 ELSE 0
    IN  base_latency + cpu_pressure + mem_pressure

\* the cost of a placement billed for two hours
placement_cost_two_hours(node) ==
    total_cost(node.cost_per_hour, 2, 1, 0, 0, 0, 0)

\* the cost of placing a job on a node (lib.rs 170-181): one hour, full
\* utilization, no data transfer, no idle cost
placement_cost(node) ==
    total_cost(node.cost_per_hour, 1, 1, 0, 0, 0, 0)

\* the latency test with >= in place of >
violates_latency_ge(j, node) ==
    estimate_latency(node) >= j.sla.max_latency_ms

\* the latency test of the loop: TRUE when the node is skipped
violates_latency(j, node) ==
    estimate_latency(node) > j.sla.max_latency_ms

\* the budget test with >= in place of >
exceeds_budget_ge(j, cost) ==
    /\ IsSome(j.sla.max_budget_usd)
    /\ cost.total_usd >= Unwrap(j.sla.max_budget_usd)

\* the budget test of the loop: TRUE when the node is skipped
exceeds_budget(j, cost) ==
    /\ IsSome(j.sla.max_budget_usd)
    /\ cost.total_usd > Unwrap(j.sla.max_budget_usd)

\* the test that makes a surviving node the new best placement
improves(cost, min_cost) ==
    cost.total_usd < min_cost

\* the loop body without the assignment min_cost = cost.total_usd
loop_body_stale_min(j, node, acc) ==
    IF ~check_resource_fit(j.resources, node) THEN acc
    ELSE LET cost == placement_cost(node)
             estimated_latency == estimate_latency(node)
         IN  IF violates_latency(j, node) THEN acc
             ELSE IF exceeds_budget(j, cost) THEN acc
             ELSE IF improves(cost, acc[2])
                  THEN << Some([ job_id               |-> j.id,
                                 node_id              |-> node.id,
                                 estimated_cost       |-> cost,
                                 estimated_latency_ms |-> estimated_latency ]),
                          acc[2] >>
                  ELSE acc

\* one iteration of `for node in nodes.values()`: the loop state is
\* <<best_placement, min_cost>>
loop_body(j, node, acc) ==
    IF ~check_resource_fit(j.resources, node) THEN acc
    ELSE LET cost == placement_cost(node)
             estimated_latency == estimate_latency(node)
         IN  IF violates_latency(j, node) THEN acc
             ELSE IF exceeds_budget(j, cost) THEN acc
             ELSE IF improves(cost, acc[2])
                  THEN << Some([ job_id               |-> j.id,
                                 node_id              |-> node.id,
                                 estimated_cost       |-> cost,
                                 estimated_latency_ms |-> estimated_latency ]),
                          cost.total_usd >>
                  ELSE acc

RECURSIVE evaluate_from(_, _, _, _, _)
evaluate_from(j, snapshot, order, i, acc) ==
    IF i > Len(order) THEN acc
    ELSE evaluate_from(j, snapshot, order, i + 1,
                       loop_body(j, snapshot[order[i]], acc))

\* the whole loop over the snapshot, visited in the given order; the result
\* is best_placement
evaluate(j, snapshot, order) ==
    evaluate_from(j, snapshot, order, 1, << None, F64_MAX >>)[1]

\* the orders in which a HashMap with the keys S can be iterated
IterationOrders(S) ==
    { o \in [1..Cardinality(S) -> S] : \A a, b \in 1..Cardinality(S) :
                                          a # b => o[a] # o[b] }

(***************************************************************************)
(* The two stores                                                          *)
(***************************************************************************)
EmptyMap == << >>

\* HashMap::insert
Insert(map, key, value) ==
    [ k \in DOMAIN map \cup {key} |-> IF k = key THEN value ELSE map[k] ]

\* update_job_state creating the record of an unknown job id
update_job_state_upsert(states, job_id, status, assigned_node) ==
    IF job_id \in DOMAIN states
    THEN [ states EXCEPT ![job_id] =
             [ @ EXCEPT !.status = status,
                        !.assigned_node = IF IsSome(assigned_node)
                                          THEN assigned_node ELSE @ ] ]
    ELSE [ id \in DOMAIN states \cup {job_id} |->
             IF id = job_id
             THEN [ job_id |-> job_id, status |-> status,
                    assigned_node |-> assigned_node, estimated_cost |-> << >> ]
             ELSE states[id] ]

\* update_job_state storing the node argument also when it is None
update_job_state_overwrite_node(states, job_id, status, assigned_node) ==
    IF job_id \in DOMAIN states
    THEN [ states EXCEPT ![job_id] =
             [ @ EXCEPT !.status = status, !.assigned_node = assigned_node ] ]
    ELSE states

\* update_job_state that deletes the record of a job that failed
update_job_state_drop_failed(states, job_id, status, assigned_node) ==
    IF job_id \in DOMAIN states
    THEN IF status = "Failed"
         THEN [ id \in DOMAIN states \ {job_id} |-> states[id] ]
         ELSE [ states EXCEPT ![job_id] =
                  [ @ EXCEPT !.status = status,
                             !.assigned_node = IF IsSome(assigned_node)
                                               THEN assigned_node ELSE @ ] ]
    ELSE states

\* update_job_state that sets the status and drops the assigned node
update_job_state_no_node(states, job_id, status, assigned_node) ==
    IF job_id \in DOMAIN states
    THEN [ states EXCEPT ![job_id].status = status ]
    ELSE states

\* the critical section of update_job_state
update_job_state(states, job_id, status, assigned_node) ==
    IF job_id \in DOMAIN states
    THEN [ states EXCEPT ![job_id] =
             [ @ EXCEPT !.status = status,
                        !.assigned_node = IF IsSome(assigned_node)
                                          THEN assigned_node ELSE @ ] ]
    ELSE states

\* the critical section that stores the cost estimate (lib.rs 225-231)
store_estimated_cost(states, job_id, cost) ==
    IF job_id \in DOMAIN states
    THEN [ states EXCEPT ![job_id].estimated_cost = Some(cost) ]
    ELSE states

\* the record schedule inserts for a submitted job
PendingState(job_id) ==
    [ job_id         |-> job_id,
      status         |-> "Pending",
      assigned_node  |-> None,
      estimated_cost |-> None ]

\* get_job_state that hides a record until the job leaves Pending
get_job_state_hide_pending(job_id) ==
    IF job_id \in DOMAIN job_states /\ job_states[job_id].status # "Pending"
    THEN Some(job_states[job_id]) ELSE None

get_job_state(job_id) ==
    IF job_id \in DOMAIN job_states THEN Some(job_states[job_id]) ELSE None

\* grpc.rs 152-190: the GetJobStatus handler answers with the record's
\* fields, or with NotFound when get_job_state returns None
get_job_status(job_id) ==
    LET state == get_job_state(job_id)
    IN  IF IsSome(state)
        THEN [ code |-> "Ok",
               response |->
                 Some([ job_id |-> job_id,
                        status |-> Unwrap(state).status,
                        assigned_node |->
                          IF IsSome(Unwrap(state).assigned_node)
                          THEN Unwrap(Unwrap(state).assigned_node) ELSE "",
                        final_cost |->
                          IF IsSome(Unwrap(state).estimated_cost)
                          THEN LET cost == Unwrap(Unwrap(state).estimated_cost)
                               IN  Some([ compute_cost_usd |-> cost.compute_usd,
                                          data_transfer_usd |->
                                            cost.data_transfer_usd,
                                          idle_opportunity_usd |->
                                            cost.idle_opportunity_usd,
                                          total_cost_usd |-> cost.total_usd,
                                          estimated_latency_ms |-> 0 ])
                          ELSE None ]) ]
        ELSE [ code |-> "NotFound", response |-> None ]

node_count == Cardinality(DOMAIN available_nodes)

(***************************************************************************)
(* Results of a schedule call                                              *)
(***************************************************************************)
Pending == [ kind |-> "pending", placement |-> None, error |-> "" ]

Ok(placement) == [ kind |-> "ok", placement |-> Some(placement), error |-> "" ]

Err(message) == [ kind |-> "err", placement |-> None, error |-> message ]

NoNodesAvailable == "No nodes available in cluster"

NoSuitableNode == "No suitable node found for job"

(***************************************************************************)
(* The worker process before it starts                                     *)
(***************************************************************************)
\* no WorkerAgent exists yet
NoAgent ==
    [ pc |-> "none", max_retries |-> 0, client |-> None, site |-> "none",
      attempt |-> 0, attempts |-> 0, sleeps |-> 0, connected |-> "none",
      registered |-> "none", reported |-> "none" ]

\* no execute_job call is in progress
NoExecutor ==
    [ pc |-> "idle", job_id |-> "", container_id |-> None, created |-> None,
      exit_code |-> 0, result |-> "none", error |-> "" ]

(***************************************************************************)
(* Initial state: EconomicScheduler::new, no call in flight                *)
(***************************************************************************)
Init ==
    /\ available_nodes = EmptyMap
    /\ job_states = EmptyMap
    /\ pc = [ c \in Calls |-> "idle" ]
    /\ job = [ c \in Calls |-> None ]
    /\ nodes = [ c \in Calls |-> EmptyMap ]
    /\ best_placement = [ c \in Calls |-> None ]
    /\ result = [ c \in Calls |-> Pending ]
    /\ lock = [ m \in Mutexes |-> None ]
    /\ ext_pc = [ t \in Externals |-> "idle" ]
    /\ observed = << >>
    /\ agent = NoAgent
    /\ executor = NoExecutor
    /\ docker = {}

(***************************************************************************)
(* The mutexes. A guard lives to the end of its scope; a step that runs a  *)
(* critical section takes the mutex, unless its thread took it in an       *)
(* earlier step of its own (Acquire), and releases it at the end.          *)
(***************************************************************************)
\* the threads: schedule call c, and the caller of another operation
Call(c) == <<"schedule", c>>

External(t) == <<t, 0>>

Acquire(m, t) ==
    /\ lock[m] = None
    /\ lock' = [ lock EXCEPT ![m] = Some(t) ]
    /\ UNCHANGED worker_vars

CriticalSection(m, t) ==
    /\ lock[m] \in {None, Some(t)}
    /\ lock' = [ lock EXCEPT ![m] = None ]
    /\ UNCHANGED worker_vars

\* a write makes what the readers saw before it stale
Written == observed' = << >>

(***************************************************************************)
(* Operations                                                              *)
(***************************************************************************)
\* register_node updating an existing record but keeping its location
register_node_keep_location(node) ==
    /\ CriticalSection("available_nodes", External("register_node"))
    /\ available_nodes' =
          Insert(available_nodes, node.id,
                 IF node.id \in DOMAIN available_nodes
                 THEN [ node EXCEPT !.location = available_nodes[node.id].location ]
                 ELSE node)
    /\ Written
    /\ UNCHANGED <<job_states, pc, job, nodes, best_placement, result>>

\* register_node starting a fresh registry that holds only the new node
register_node_fresh(node) ==
    /\ CriticalSection("available_nodes", External("register_node"))
    /\ available_nodes' = Insert(EmptyMap, node.id, node)
    /\ Written
    /\ UNCHANGED <<job_states, pc, job, nodes, best_placement, result>>

\* lib.rs 112-121
register_node(node) ==
    /\ CriticalSection("available_nodes", External("register_node"))
    /\ available_nodes' = Insert(available_nodes, node.id, node)
    /\ Written
    /\ UNCHANGED <<job_states, pc, job, nodes, best_placement, result>>

\* the creation step with its guard kept alive past the end of the block
schedule_create_keep_guard(c, j) ==
    /\ pc[c] = "idle"
    /\ lock["job_states"] \in {None, Some(Call(c))}
    /\ lock' = [ lock EXCEPT !["job_states"] = Some(Call(c)) ]
    /\ UNCHANGED worker_vars
    /\ Written
    /\ UNCHANGED ext_pc
    /\ job_states' = Insert(job_states, j.id, PendingState(j.id))
    /\ job' = [ job EXCEPT ![c] = Some(j) ]
    /\ pc' = [ pc EXCEPT ![c] = "created" ]
    /\ UNCHANGED <<available_nodes, nodes, best_placement, result>>

\* schedule, lib.rs 132-143: create the initial job state
schedule_create(c, j) ==
    /\ pc[c] = "idle"
    /\ CriticalSection("job_states", Call(c))
    /\ Written
    /\ UNCHANGED ext_pc
    /\ job_states' = Insert(job_states, j.id, PendingState(j.id))
    /\ job' = [ job EXCEPT ![c] = Some(j) ]
    /\ pc' = [ pc EXCEPT ![c] = "created" ]
    /\ UNCHANGED <<available_nodes, nodes, best_placement, result>>

\* schedule, lib.rs 145-150: clone the node map under its lock
schedule_snapshot(c) ==
    /\ pc[c] = "created"
    /\ CriticalSection("available_nodes", Call(c))
    /\ UNCHANGED <<ext_pc, observed>>
    /\ nodes' = [ nodes EXCEPT ![c] = available_nodes ]
    /\ pc' = [ pc EXCEPT ![c] = "snapshot" ]
    /\ UNCHANGED <<available_nodes, job_states, job, best_placement, result>>

\* the empty-registry branch returning its error without update_job_state
schedule_no_nodes_no_update(c) ==
    /\ pc[c] = "snapshot"
    /\ DOMAIN nodes[c] = {}
    /\ UNCHANGED <<lock, ext_pc, observed, worker_vars>>
    /\ result' = [ result EXCEPT ![c] = Err(NoNodesAvailable) ]
    /\ pc' = [ pc EXCEPT ![c] = "done" ]
    /\ nodes' = [ nodes EXCEPT ![c] = EmptyMap ]
    /\ best_placement' = [ best_placement EXCEPT ![c] = None ]
    /\ UNCHANGED <<available_nodes, job_states, job>>

\* schedule, lib.rs 152-155: the snapshot is empty
schedule_no_nodes(c) ==
    /\ pc[c] = "snapshot"
    /\ DOMAIN nodes[c] = {}
    /\ CriticalSection("job_states", Call(c))
    /\ Written
    /\ UNCHANGED ext_pc
    /\ job_states' = update_job_state(job_states, Unwrap(job[c]).id, "Failed", None)
    /\ result' = [ result EXCEPT ![c] = Err(NoNodesAvailable) ]
    /\ pc' = [ pc EXCEPT ![c] = "done" ]
    /\ nodes' = [ nodes EXCEPT ![c] = EmptyMap ]
    /\ best_placement' = [ best_placement EXCEPT ![c] = None ]
    /\ UNCHANGED <<available_nodes, job>>

\* the cpu_cores of the job with this id, as submitted by some call
cpu_cores_of(job_id) ==
    LET c == CHOOSE c \in Calls : IsSome(job[c]) /\ Unwrap(job[c]).id = job_id
    IN  Unwrap(job[c]).resources.cpu_cores

RECURSIVE sum_cpu_cores(_)
sum_cpu_cores(ids) ==
    IF ids = {} THEN 0
    ELSE LET id == CHOOSE id \in ids : TRUE
         IN  cpu_cores_of(id) + sum_cpu_cores(ids \ {id})

\* the sum of cpu_cores of the jobs in status Scheduled on a node
scheduled_cpu(node_id) ==
    sum_cpu_cores({ id \in DOMAIN job_states :
                      /\ job_states[id].status = "Scheduled"
                      /\ job_states[id].assigned_node = Some(node_id) })

\* the evaluation loop with the cpu of the jobs already Scheduled on a node
\* taken off its capacity
schedule_evaluate_reserved(c) ==
    /\ pc[c] = "snapshot"
    /\ DOMAIN nodes[c] # {}
    /\ UNCHANGED <<lock, ext_pc, observed, worker_vars>>
    /\ \E order \in IterationOrders(DOMAIN nodes[c]) :
          best_placement' = [ best_placement EXCEPT
             ![c] = evaluate(Unwrap(job[c]),
                             [ id \in DOMAIN nodes[c] |->
                                 [ nodes[c][id] EXCEPT !.available_cpu =
                                     IF scheduled_cpu(id) >= @ THEN 0
                                     ELSE @ - scheduled_cpu(id) ] ],
                             order) ]
    /\ pc' = [ pc EXCEPT ![c] = "evaluated" ]
    /\ UNCHANGED <<available_nodes, job_states, job, nodes, result>>

\* the evaluation loop run over the registry instead of the snapshot
schedule_evaluate_live(c) ==
    /\ pc[c] = "snapshot"
    /\ DOMAIN nodes[c] # {}
    /\ UNCHANGED <<lock, ext_pc, observed, worker_vars>>
    /\ \E order \in IterationOrders(DOMAIN available_nodes) :
          best_placement' = [ best_placement EXCEPT
                                ![c] = evaluate(Unwrap(job[c]), available_nodes, order) ]
    /\ pc' = [ pc EXCEPT ![c] = "evaluated" ]
    /\ UNCHANGED <<available_nodes, job_states, job, nodes, result>>

\* schedule, lib.rs 157-213: the evaluation loop, in some iteration order
schedule_evaluate(c) ==
    /\ pc[c] = "snapshot"
    /\ DOMAIN nodes[c] # {}
    /\ UNCHANGED <<lock, ext_pc, observed, worker_vars>>
    /\ \E order \in IterationOrders(DOMAIN nodes[c]) :
          best_placement' = [ best_placement EXCEPT
                                ![c] = evaluate(Unwrap(job[c]), nodes[c], order) ]
    /\ pc' = [ pc EXCEPT ![c] = "evaluated" ]
    /\ UNCHANGED <<available_nodes, job_states, job, nodes, result>>

\* recording the placement and taking the job's cpu off the node's capacity
schedule_record_reserve(c) ==
    /\ pc[c] = "evaluated"
    /\ IsSome(best_placement[c])
    /\ CriticalSection("job_states", Call(c))
    /\ Written
    /\ UNCHANGED ext_pc
    /\ job_states' = update_job_state(job_states, Unwrap(job[c]).id, "Scheduled",
                                      Some(Unwrap(best_placement[c]).node_id))
    /\ available_nodes' =
          LET id == Unwrap(best_placement[c]).node_id
              cpu == Unwrap(job[c]).resources.cpu_cores
          IN  IF id \in DOMAIN available_nodes
              THEN [ available_nodes EXCEPT ![id].available_cpu =
                        IF cpu >= @ THEN 0 ELSE @ - cpu ]
              ELSE available_nodes
    /\ pc' = [ pc EXCEPT ![c] = "recorded" ]
    /\ UNCHANGED <<job, nodes, best_placement, result>>

\* the success branch writing the status without the node
schedule_record_status_only(c) ==
    /\ pc[c] = "evaluated"
    /\ IsSome(best_placement[c])
    /\ CriticalSection("job_states", Call(c))
    /\ Written
    /\ UNCHANGED ext_pc
    /\ job_states' = update_job_state(job_states, Unwrap(job[c]).id, "Scheduled",
                                      None)
    /\ pc' = [ pc EXCEPT ![c] = "recorded" ]
    /\ UNCHANGED <<available_nodes, job, nodes, best_placement, result>>

\* schedule, lib.rs 216-222: record the job as Scheduled on the chosen node
schedule_record(c) ==
    /\ pc[c] = "evaluated"
    /\ IsSome(best_placement[c])
    /\ CriticalSection("job_states", Call(c))
    /\ Written
    /\ UNCHANGED ext_pc
    /\ job_states' = update_job_state(job_states, Unwrap(job[c]).id, "Scheduled",
                                      Some(Unwrap(best_placement[c]).node_id))
    /\ pc' = [ pc EXCEPT ![c] = "recorded" ]
    /\ UNCHANGED <<available_nodes, job, nodes, best_placement, result>>

\* the last step with its guard never dropped
schedule_store_cost_keep_guard(c) ==
    /\ pc[c] = "recorded"
    /\ lock["job_states"] \in {None, Some(Call(c))}
    /\ lock' = [ lock EXCEPT !["job_states"] = Some(Call(c)) ]
    /\ UNCHANGED worker_vars
    /\ Written
    /\ UNCHANGED ext_pc
    /\ job_states' = store_estimated_cost(job_states, Unwrap(job[c]).id,
                                          Unwrap(best_placement[c]).estimated_cost)
    /\ result' = [ result EXCEPT ![c] = Ok(Unwrap(best_placement[c])) ]
    /\ pc' = [ pc EXCEPT ![c] = "done" ]
    /\ nodes' = [ nodes EXCEPT ![c] = EmptyMap ]
    /\ best_placement' = [ best_placement EXCEPT ![c] = None ]
    /\ UNCHANGED <<available_nodes, job>>

\* schedule, lib.rs 224-235: store the cost estimate and return the placement
schedule_store_cost(c) ==
    /\ pc[c] = "recorded"
    /\ CriticalSection("job_states", Call(c))
    /\ Written
    /\ UNCHANGED ext_pc
    /\ job_states' = store_estimated_cost(job_states, Unwrap(job[c]).id,
                                          Unwrap(best_placement[c]).estimated_cost)
    /\ result' = [ result EXCEPT ![c] = Ok(Unwrap(best_placement[c])) ]
    /\ pc' = [ pc EXCEPT ![c] = "done" ]
    /\ nodes' = [ nodes EXCEPT ![c] = EmptyMap ]
    /\ best_placement' = [ best_placement EXCEPT ![c] = None ]
    /\ UNCHANGED <<available_nodes, job>>

\* the no-suitable-node branch without its update_job_state call
schedule_no_suitable_no_update(c) ==
    /\ pc[c] = "evaluated"
    /\ ~IsSome(best_placement[c])
    /\ UNCHANGED <<lock, ext_pc, observed, worker_vars>>
    /\ result' = [ result EXCEPT ![c] = Err(NoSuitableNode) ]
    /\ pc' = [ pc EXCEPT ![c] = "done" ]
    /\ nodes' = [ nodes EXCEPT ![c] = EmptyMap ]
    /\ best_placement' = [ best_placement EXCEPT ![c] = None ]
    /\ UNCHANGED <<available_nodes, job_states, job>>

\* schedule, lib.rs 237-240: no node survived the loop
schedule_no_suitable(c) ==
    /\ pc[c] = "evaluated"
    /\ ~IsSome(best_placement[c])
    /\ CriticalSection("job_states", Call(c))
    /\ Written
    /\ UNCHANGED ext_pc
    /\ job_states' = update_job_state(job_states, Unwrap(job[c]).id, "Failed", None)
    /\ result' = [ result EXCEPT ![c] = Err(NoSuitableNode) ]
    /\ pc' = [ pc EXCEPT ![c] = "done" ]
    /\ nodes' = [ nodes EXCEPT ![c] = EmptyMap ]
    /\ best_placement' = [ best_placement EXCEPT ![c] = None ]
    /\ UNCHANGED <<available_nodes, job>>

\* schedule blocks in Mutex::lock (lib.rs 134, 147, 226, 260) until the
\* mutex of its next critical section is free, and then holds it
schedule_lock(c) ==
    /\ IF pc[c] = "created"
       THEN Acquire("available_nodes", Call(c))
       ELSE /\ (pc[c] \in {"idle", "evaluated", "recorded"}
                \/ (pc[c] = "snapshot" /\ DOMAIN nodes[c] = {}))
            /\ Acquire("job_states", Call(c))
    /\ UNCHANGED <<available_nodes, job_states, pc, job, nodes, best_placement,
                   result, ext_pc, observed>>

\* get_job_state taking the record out of the store
get_job_state_call_take(job_id) ==
    /\ CriticalSection("job_states", External("get_job_state"))
    /\ observed' = Append(observed, [ op |-> "get_job_state", arg |-> job_id,
                                      value |-> get_job_state(job_id) ])
    /\ job_states' = [ id \in DOMAIN job_states \ {job_id} |-> job_states[id] ]
    /\ UNCHANGED <<available_nodes, pc, job, nodes, best_placement, result>>

\* cost-engine lib.rs 22-29 and 69-84, called on their own
TotalCost_new_call(compute, data_transfer, idle) ==
    /\ observed' = Append(observed,
                          [ op |-> "TotalCost::new",
                            arg |-> <<compute, data_transfer, idle>>,
                            value |-> TotalCost_new(compute, data_transfer, idle) ])
    /\ UNCHANGED <<available_nodes, job_states, pc, job, nodes, best_placement,
                   result, lock, worker_vars>>

total_cost_call(a) ==
    /\ observed' = Append(observed,
                          [ op |-> "total_cost", arg |-> a,
                            value |-> total_cost(a[1], a[2], a[3], a[4], a[5],
                                                 a[6], a[7]) ])
    /\ UNCHANGED <<available_nodes, job_states, pc, job, nodes, best_placement,
                   result, lock, worker_vars>>

\* lib.rs 244-249: a caller reads the number of registered nodes
node_count_call ==
    /\ CriticalSection("available_nodes", External("node_count"))
    /\ observed' = Append(observed, [ op |-> "node_count", arg |-> "",
                                      value |-> node_count ])
    /\ UNCHANGED <<available_nodes, job_states, pc, job, nodes, best_placement,
                   result>>

\* lib.rs 292-297: a caller reads the registered nodes, in the map's order
cluster_status ==
    { [ i \in 1..Len(order) |-> available_nodes[order[i]] ] :
         order \in IterationOrders(DOMAIN available_nodes) }

cluster_status_call ==
    /\ CriticalSection("available_nodes", External("cluster_status"))
    /\ \E value \in cluster_status :
          observed' = Append(observed, [ op |-> "cluster_status", arg |-> "",
                                         value |-> value ])
    /\ UNCHANGED <<available_nodes, job_states, pc, job, nodes, best_placement,
                   result>>

\* lib.rs 251-256: a caller reads one job record
get_job_state_call(job_id) ==
    /\ CriticalSection("job_states", External("get_job_state"))
    /\ observed' = Append(observed, [ op |-> "get_job_state", arg |-> job_id,
                                      value |-> get_job_state(job_id) ])
    /\ UNCHANGED <<available_nodes, job_states, pc, job, nodes, best_placement,
                   result>>

\* Ok(()), the unit result (lib.rs 270)
OkUnit == << >>

\* lib.rs 258-271: a caller other than schedule sets a job's status
\* (the call returns Ok(()) whether or not the job id has a record)
update_job_state_call(job_id, status, assigned_node) ==
    /\ CriticalSection("job_states", External("update_job_state"))
    /\ job_states' = update_job_state(job_states, job_id, status, assigned_node)
    /\ observed' = << [ op |-> "update_job_state", arg |-> job_id,
                        value |-> OkUnit ] >>
    /\ UNCHANGED <<available_nodes, pc, job, nodes, best_placement, result>>

\* the mutex each of the other operations locks
MutexOf(t) == IF t = "register_node" THEN "available_nodes" ELSE "job_states"

\* a caller of one of the other operations blocks in Mutex::lock
\* (lib.rs 116, 253, 260) until the mutex is free, and then holds it
ext_lock(t) ==
    /\ ext_pc[t] = "idle"
    /\ Acquire(MutexOf(t), External(t))
    /\ ext_pc' = [ ext_pc EXCEPT ![t] = "locked" ]
    /\ UNCHANGED <<available_nodes, job_states, pc, job, nodes, best_placement,
                   result, observed>>

\* every step of a schedule call after its creation step
schedule_step(c) ==
    \/ schedule_snapshot(c)
    \/ schedule_no_nodes(c)
    \/ schedule_evaluate(c)
    \/ schedule_record(c)
    \/ schedule_store_cost(c)
    \/ schedule_no_suitable(c)

(***************************************************************************)
(* Inputs                                                                  *)
(***************************************************************************)
NodeIds == {"n1", "n2"}

JobIds == {"j1", "j2"}

\* the nodes and jobs of the concurrent specification
Nodes ==
    { [ id |-> "n1", available_cpu |-> 2, available_memory_gb |-> 2,
        available_gpu |-> 0, location |-> "vps-1", cost_per_hour |-> 1 ],
      [ id |-> "n2", available_cpu |-> 2, available_memory_gb |-> 2,
        available_gpu |-> 0, location |-> "vps-2", cost_per_hour |-> 2 ] }

Jobs ==
    [ id : JobIds, job_type : {"Inference"},
      resources : [ cpu_cores : {2}, memory_gb : {2}, gpu_count : {0, 1},
                    disk_gb : {10} ],
      sla : [ max_latency_ms : {1000}, max_budget_usd : {None},
              deadline : {None} ] ]

\* the nodes and jobs of the sequential specification
AllNodes ==
    [ id : NodeIds, available_cpu : {1, 2}, available_memory_gb : {1, 2},
      available_gpu : {0, 1}, location : {"vps-1"},
      cost_per_hour : {1, 2, F64_MAX} ]

AllJobs ==
    [ id : {"j1"}, job_type : {"Inference"},
      resources : [ cpu_cores : {1, 2}, memory_gb : {1, 2}, gpu_count : {0, 1},
                    disk_gb : {10} ],
      sla : [ max_latency_ms : {50, 100, 1000},
              max_budget_usd : {None, Some(1), Some(2)},
              deadline : {None} ] ]

(***************************************************************************)
(* Spec: register_node and up to MaxCalls schedule calls, interleaved at   *)
(* the boundaries of their critical sections.                              *)
(***************************************************************************)
Next ==
    \/ (\E n \in Nodes : register_node(n)) /\ UNCHANGED ext_pc
    \/ \E c \in Calls, j \in Jobs : schedule_create(c, j)
    \/ \E c \in Calls : schedule_step(c)

Spec == Init /\ [][Next]_vars

(***************************************************************************)
(* SeqSpec: nodes are registered, then one schedule call runs alone (the   *)
(* shape of the repository's scheduler tests), over all node and job       *)
(* shapes.                                                                 *)
(***************************************************************************)
SeqNext ==
    \/ pc[1] = "idle" /\ (\E n \in AllNodes : register_node(n))
                       /\ UNCHANGED ext_pc
    \/ \E j \in AllJobs : schedule_create(1, j)
    \/ schedule_step(1)

SeqSpec == Init /\ [][SeqNext]_vars

(***************************************************************************)
(* LockSpec: up to MaxCalls schedule calls and one call of each of         *)
(* register_node, get_job_state and update_job_state, with the moment a    *)
(* thread obtains a mutex separated from the critical section it then      *)
(* runs. LiveSpec adds that a thread that can take a step eventually does.  *)
(***************************************************************************)
JobStatuses == {"Pending", "Scheduled", "Running", "Completed", "Failed"}

\* the call of thread t runs its critical section and returns
ext_return(t) ==
    /\ ext_pc[t] # "done"
    /\ ext_pc' = [ ext_pc EXCEPT ![t] = "done" ]

\* a job that fits the registered nodes and one that needs a GPU
LockJobs == { j \in Jobs : (j.id = "j1") = (j.resources.gpu_count = 0) }

ext_call(t) ==
    /\ ext_return(t)
    /\ \/ t = "register_node" /\ \E n \in Nodes : register_node(n)
       \/ t = "get_job_state" /\ \E id \in JobIds : get_job_state_call(id)
       \/ /\ t = "update_job_state"
          /\ \E id \in JobIds, status \in JobStatuses,
                node \in {None} :
                   update_job_state_call(id, status, node)

LockNext ==
    \/ \E c \in Calls : schedule_lock(c)
    \/ \E c \in Calls, j \in LockJobs : schedule_create(c, j)
    \/ \E c \in Calls : schedule_step(c)
    \/ \E t \in Externals : ext_lock(t)
    \/ ext_call("register_node")
    \/ ext_call("get_job_state")
    \/ ext_call("update_job_state")

LockSpec == Init /\ [][LockNext]_vars

\* a schedule call is in progress once it waits for or holds the mutex of
\* its creation step
Started(c) == pc[c] # "idle" \/ lock["job_states"] = Some(Call(c))

\* the next step of a schedule call in progress
call_step(c) ==
    /\ Started(c)
    /\ \/ schedule_lock(c)
       \/ \E j \in LockJobs : schedule_create(c, j)
       \/ schedule_step(c)

\* the critical section of a caller that holds its mutex
ext_finish(t) == ext_pc[t] = "locked" /\ ext_call(t)

LiveSpec ==
    /\ Init /\ [][LockNext]_vars
    /\ \A c \in Calls : WF_vars(call_step(c))
    /\ \A t \in Externals : WF_vars(ext_finish(t))

(***************************************************************************)
(* SchedLiveSpec: LiveSpec with the callers the repository has: schedule,  *)
(* register_node and get_job_state (update_job_state is called by schedule *)
(* only).                                                                  *)
(***************************************************************************)
Callers == {"register_node", "get_job_state"}

SchedNext ==
    \/ \E c \in Calls : schedule_lock(c)
    \/ \E c \in Calls, j \in LockJobs : schedule_create(c, j)
    \/ \E c \in Calls : schedule_step(c)
    \/ \E t \in Callers : ext_lock(t)
    \/ ext_call("register_node")
    \/ ext_call("get_job_state")

SchedLiveSpec ==
    /\ Init /\ [][SchedNext]_vars
    /\ \A c \in Calls : WF_vars(call_step(c))
    /\ \A t \in Callers : WF_vars(ext_finish(t))

(***************************************************************************)
(* ExtSpec: Spec with update_job_state called by other threads, for any    *)
(* job id, status and node, at any moment.                                 *)
(***************************************************************************)
ExtNodes == { n \in Nodes : n.id = "n1" }

ExtNext ==
    \/ (\E n \in ExtNodes : register_node(n)) /\ UNCHANGED ext_pc
    \/ \E c \in Calls, j \in LockJobs : schedule_create(c, j)
    \/ \E c \in Calls : schedule_step(c)
    \/ /\ \E id \in JobIds, status \in JobStatuses, node \in {None, Some("n2")} :
             update_job_state_call(id, status, node)
       /\ UNCHANGED ext_pc

ExtSpec == Init /\ [][ExtNext]_vars

(***************************************************************************)
(* CostSpec: one schedule call and register_node, and the cost engine      *)
(* called on its own with prices, durations and sizes up to f64::MAX.      *)
(***************************************************************************)
CostComponents == {0, 1, F64_MAX, INFINITY}

CostArgs ==
    {0, 1, 2, F64_MAX} \X {1, 2} \X {1} \X {0, 2} \X {0, 1} \X {0, 1} \X {0, 1}

CostNext ==
    \/ (\E n \in Nodes : register_node(n)) /\ UNCHANGED ext_pc
    \/ \E j \in Jobs : schedule_create(1, j)
    \/ schedule_step(1)
    \/ /\ observed = << >>
       /\ \E c, d, i \in CostComponents : TotalCost_new_call(c, d, i)
       /\ UNCHANGED ext_pc
    \/ /\ observed = << >>
       /\ \E a \in CostArgs : total_cost_call(a)
       /\ UNCHANGED ext_pc

CostSpec == Init /\ [][CostNext]_vars

(***************************************************************************)
(* FieldSpec: one schedule call at a time over jobs that differ in every   *)
(* field of JobSpec, the fields the loop never reads included.             *)
(***************************************************************************)
JobTypes == {"Training", "Inference", "DataProcessing"}

FieldNodes ==
    [ id : NodeIds, available_cpu : {1, 2}, available_memory_gb : {2},
      available_gpu : {0}, location : {"vps-1"}, cost_per_hour : {1, 2} ]

FieldJobs ==
    [ id : {"j1"}, job_type : JobTypes,
      resources : [ cpu_cores : {1, 2}, memory_gb : {2}, gpu_count : {0},
                    disk_gb : {10, 1000} ],
      sla : [ max_latency_ms : {50, 1000},
              max_budget_usd : {None, Some(1)},
              deadline : {None, Some(0)} ] ]

FieldNext ==
    \/ pc[1] = "idle" /\ (\E n \in FieldNodes : register_node(n))
                       /\ UNCHANGED ext_pc
    \/ \E j \in FieldJobs : schedule_create(1, j)
    \/ schedule_step(1)

FieldSpec == Init /\ [][FieldNext]_vars

(***************************************************************************)
(* ReportSpec: one schedule call and register_node, with workers reporting *)
(* their resources at any time.                                            *)
(***************************************************************************)
ResourceReports ==
    [ node_id : {"n1", "n3"}, available_cpu : {0, 4},
      available_memory_gb : {0}, available_disk_gb : {0}, available_gpu : {0},
      timestamp : {0} ]

\* a handler that writes the reported capacities into the registry
report_resources_apply(report) ==
    /\ CriticalSection("available_nodes", External("report_resources"))
    /\ available_nodes' =
          IF report.node_id \in DOMAIN available_nodes
          THEN [ available_nodes EXCEPT
                   ![report.node_id].available_cpu = report.available_cpu,
                   ![report.node_id].available_memory_gb =
                       report.available_memory_gb,
                   ![report.node_id].available_gpu = report.available_gpu ]
          ELSE available_nodes
    /\ observed' = Append(observed, [ op |-> "report_resources", arg |-> report,
                                      value |-> [ received |-> TRUE ] ])
    /\ UNCHANGED <<job_states, pc, job, nodes, best_placement, result>>

\* grpc.rs 55-73: the report is logged and acknowledged; no store is locked,
\* read or written
report_resources(report) ==
    /\ observed' = Append(observed, [ op |-> "report_resources", arg |-> report,
                                      value |-> [ received |-> TRUE ] ])
    /\ UNCHANGED <<available_nodes, job_states, pc, job, nodes, best_placement,
                   result, lock, worker_vars>>

ReportNext ==
    \/ (\E n \in Nodes : register_node(n)) /\ UNCHANGED ext_pc
    \/ \E j \in Jobs : schedule_create(1, j)
    \/ schedule_step(1)
    \/ /\ Len(observed) < MaxReads
       /\ \E report \in ResourceReports : report_resources(report)
       /\ UNCHANGED ext_pc

ReportSpec == Init /\ [][ReportNext]_vars

(***************************************************************************)
(* Poisoned mutexes.  A std::sync::Mutex is poisoned when a thread panics  *)
(* while it holds the guard; from then on every lock() returns Err.  The   *)
(* holder <<"poisoned", 0>> never releases, so the healthy critical        *)
(* sections above are disabled and the paths below take their place.       *)
(***************************************************************************)
Poisoned == Some(<<"poisoned", 0>>)

LockPoisoned == "Lock poisoned"

\* a thread panics inside a critical section of mutex m
poison(m) ==
    /\ lock[m] = None
    /\ lock' = [ lock EXCEPT ![m] = Poisoned ]
    /\ UNCHANGED worker_vars
    /\ UNCHANGED <<available_nodes, job_states, pc, job, nodes, best_placement,
                   result, observed>>

\* schedule, lib.rs 134-135: lock() fails, `?` returns the error
schedule_create_poisoned(c, j) ==
    /\ pc[c] = "idle"
    /\ lock["job_states"] = Poisoned
    /\ job' = [ job EXCEPT ![c] = Some(j) ]
    /\ result' = [ result EXCEPT ![c] = Err(LockPoisoned) ]
    /\ pc' = [ pc EXCEPT ![c] = "done" ]
    /\ UNCHANGED <<available_nodes, job_states, nodes, best_placement, lock,
                   ext_pc, observed, worker_vars>>

\* schedule, lib.rs 147-148, 153, 217-221, 226-227, 238: lock() fails in a
\* later critical section (through update_job_state where the code calls
\* it), `?` returns the error and the job record stays as it is
schedule_step_poisoned(c) ==
    /\ IF pc[c] = "created"
       THEN lock["available_nodes"] = Poisoned
       ELSE /\ (pc[c] \in {"evaluated", "recorded"}
                \/ (pc[c] = "snapshot" /\ DOMAIN nodes[c] = {}))
            /\ lock["job_states"] = Poisoned
    /\ result' = [ result EXCEPT ![c] = Err(LockPoisoned) ]
    /\ pc' = [ pc EXCEPT ![c] = "done" ]
    /\ nodes' = [ nodes EXCEPT ![c] = EmptyMap ]
    /\ best_placement' = [ best_placement EXCEPT ![c] = None ]
    /\ UNCHANGED <<available_nodes, job_states, job, lock, ext_pc, observed, worker_vars>>

\* what a caller of a facade operation gets back: `failed` tells whether the
\* answer is an error (Err(..), answered by gRPC as Status::internal)
Answer(op, arg, value, failed) ==
    /\ observed' = Append(observed, [ op |-> op, arg |-> arg, value |-> value,
                                      failed |-> failed ])
    /\ UNCHANGED <<available_nodes, job_states, pc, job, nodes, best_placement,
                   result, lock, worker_vars>>

\* lib.rs 116-117: register_node returns Err("Lock poisoned")
register_node_poisoned(node) ==
    /\ lock["available_nodes"] = Poisoned
    /\ Answer("register_node", node.id, LockPoisoned, TRUE)

\* lib.rs 260-261: update_job_state returns Err("Lock poisoned")
update_job_state_poisoned(job_id) ==
    /\ lock["job_states"] = Poisoned
    /\ Answer("update_job_state", job_id, LockPoisoned, TRUE)

\* lib.rs 245-249: node_count answers unwrap_or(0)
node_count_poisoned ==
    /\ lock["available_nodes"] = Poisoned
    /\ Answer("node_count", "", 0, FALSE)

\* lib.rs 293-297: cluster_status answers unwrap_or_else(|_| Vec::new())
cluster_status_poisoned ==
    /\ lock["available_nodes"] = Poisoned
    /\ Answer("cluster_status", "", << >>, FALSE)

\* lib.rs 252-256: get_job_state answers .ok().and_then(..), that is None,
\* which GetJobStatus turns into NotFound (grpc.rs 186-188)
get_job_state_poisoned(job_id) ==
    /\ lock["job_states"] = Poisoned
    /\ Answer("get_job_state", job_id, None, FALSE)

(***************************************************************************)
(* PoisonSpec: one schedule call and register_node; either mutex can be    *)
(* poisoned at any time, and one facade operation is called afterwards.    *)
(***************************************************************************)
PoisonNext ==
    \/ (\E n \in Nodes : register_node(n)) /\ UNCHANGED ext_pc
    \/ \E j \in Jobs : schedule_create(1, j)
    \/ schedule_step(1)
    \/ (\E m \in Mutexes : poison(m)) /\ UNCHANGED ext_pc
    \/ \E j \in Jobs : schedule_create_poisoned(1, j)
    \/ schedule_step_poisoned(1)
    \/ /\ observed = << >>
       /\ \E n \in Nodes : register_node_poisoned(n)
       /\ UNCHANGED ext_pc
    \/ /\ observed = << >>
       /\ \E id \in JobIds : update_job_state_poisoned(id)
       /\ UNCHANGED ext_pc
    \/ observed = << >> /\ node_count_poisoned /\ UNCHANGED ext_pc
    \/ observed = << >> /\ cluster_status_poisoned /\ UNCHANGED ext_pc
    \/ /\ observed = << >>
       /\ \E id \in JobIds : get_job_state_poisoned(id)
       /\ UNCHANGED ext_pc

PoisonSpec == Init /\ [][PoisonNext]_vars

(***************************************************************************)
(* The GetClusterStatus handler                                            *)
(***************************************************************************)
\* the proto NodeInfo built from a registered node (grpc.rs 201-208)
ProtoNode(node) ==
    [ node_id |-> node.id, hostname |-> node.id,
      available_cpu |-> node.available_cpu,
      available_memory_gb |-> node.available_memory_gb,
      location |-> node.location, is_active |-> TRUE ]

\* a response that counts the job records
get_cluster_status_count_jobs ==
    { [ total_nodes |-> Len(nodes_info), active_nodes |-> Len(nodes_info),
        total_jobs |-> Cardinality(DOMAIN job_states),
        running_jobs |-> 0,
        nodes |-> [ i \in 1..Len(nodes_info) |-> ProtoNode(nodes_info[i]) ] ] :
      nodes_info \in cluster_status }

\* grpc.rs 192-219: the responses the handler can give, one per order in
\* which cluster_status lists the registry
get_cluster_status ==
    { [ total_nodes |-> Len(nodes_info), active_nodes |-> Len(nodes_info),
        total_jobs |-> 0, running_jobs |-> 0,
        nodes |-> [ i \in 1..Len(nodes_info) |-> ProtoNode(nodes_info[i]) ] ] :
      nodes_info \in cluster_status }

get_cluster_status_call ==
    /\ CriticalSection("available_nodes", External("cluster_status"))
    /\ \E response \in get_cluster_status :
          observed' = Append(observed, [ op |-> "get_cluster_status", arg |-> "",
                                         value |-> response ])
    /\ UNCHANGED <<available_nodes, job_states, pc, job, nodes, best_placement,
                   result>>

(***************************************************************************)
(* StatusSpec: Spec with GetClusterStatus requests between the writes.     *)
(***************************************************************************)
StatusNext ==
    \/ (\E n \in Nodes : register_node(n)) /\ UNCHANGED ext_pc
    \/ \E c \in Calls, j \in Jobs : schedule_create(c, j)
    \/ \E c \in Calls : schedule_step(c)
    \/ observed = << >> /\ get_cluster_status_call /\ UNCHANGED ext_pc

StatusSpec == Init /\ [][StatusNext]_vars

(***************************************************************************)
(* The worker agent (src/worker/src/main.rs).  The scheduler it talks to   *)
(* is its environment: every connection attempt, registration and report   *)
(* can succeed or fail.                                                    *)
(***************************************************************************)
\* connect whose loop runs attempt 0..=max_retries
connect_enter_from_zero(a, site) ==
    [ a EXCEPT !.pc = "connect", !.site = site, !.attempt = 0,
               !.attempts = 0, !.sleeps = 0 ]

\* entry of connect (main.rs 182-184): the for loop starts at attempt 1
connect_enter(a, site) ==
    [ a EXCEPT !.pc = "connect", !.site = site, !.attempt = 1,
               !.attempts = 0, !.sleeps = 0 ]

\* main.rs 334-337 and 285-291: WorkerAgent::new(config), run, first connect
run(max_retries) ==
    /\ agent.pc = "none"
    /\ agent' = connect_enter([ agent EXCEPT !.max_retries = max_retries ],
                              "init")
    /\ UNCHANGED <<scheduler_vars, executor, docker>>

\* main.rs 185-191: an attempt succeeds, the client is stored, connect
\* returns Ok and its caller goes on to register
connect_ok ==
    /\ agent.pc = "connect"
    /\ agent.attempt <= agent.max_retries
    /\ agent' = [ agent EXCEPT !.attempts = @ + 1,
                               !.client = Some("client"),
                               !.connected = "ok",
                               !.pc = "register" ]
    /\ UNCHANGED <<scheduler_vars, executor, docker>>

\* main.rs 192-201: an attempt fails; the delay follows unless it was the
\* last attempt
connect_err ==
    /\ agent.pc = "connect"
    /\ agent.attempt <= agent.max_retries
    /\ agent' = IF agent.attempt < agent.max_retries
                THEN [ agent EXCEPT !.attempts = @ + 1, !.pc = "sleep" ]
                ELSE [ agent EXCEPT !.attempts = @ + 1, !.attempt = @ + 1 ]
    /\ UNCHANGED <<scheduler_vars, executor, docker>>

\* main.rs 199: the reconnect delay, then the next iteration
connect_sleep ==
    /\ agent.pc = "sleep"
    /\ agent' = [ agent EXCEPT !.sleeps = @ + 1, !.attempt = @ + 1,
                               !.pc = "connect" ]
    /\ UNCHANGED <<scheduler_vars, executor, docker>>

\* main.rs 205: the loop is over, connect returns the error; run returns it
\* at the first call (290) and continues with the next tick in the loop
\* (306-309)
connect_bail ==
    /\ agent.pc = "connect"
    /\ agent.attempt > agent.max_retries
    /\ agent' = [ agent EXCEPT !.connected = "err",
                               !.pc = IF agent.site = "init" THEN "failed"
                                      ELSE "tick" ]
    /\ UNCHANGED <<scheduler_vars, executor, docker>>

\* main.rs 208-245: register succeeds; the report loop starts or goes on
register_ok ==
    /\ agent.pc = "register"
    /\ IsSome(agent.client)
    /\ agent' = [ agent EXCEPT !.registered = "ok", !.pc = "tick" ]
    /\ UNCHANGED <<scheduler_vars, executor, docker>>

\* register fails (no client, unreadable /proc, transport error, rejected):
\* run returns the error at the first call (291) and only logs it in the
\* loop (312-314)
register_err ==
    /\ agent.pc = "register"
    /\ agent' = [ agent EXCEPT !.registered = "err",
                               !.pc = IF agent.site = "init" THEN "failed"
                                      ELSE "tick" ]
    /\ UNCHANGED <<scheduler_vars, executor, docker>>

\* main.rs 298-299: the interval ticks
tick ==
    /\ agent.pc = "tick"
    /\ agent' = [ agent EXCEPT !.pc = "report" ]
    /\ UNCHANGED <<scheduler_vars, executor, docker>>

\* main.rs 248-282, 302: the report is acknowledged
report_ok ==
    /\ agent.pc = "report"
    /\ IsSome(agent.client)
    /\ agent' = [ agent EXCEPT !.reported = "ok", !.pc = "tick" ]
    /\ UNCHANGED <<scheduler_vars, executor, docker>>

\* a failed report that ends run
report_err_exit ==
    /\ agent.pc = "report"
    /\ agent' = [ agent EXCEPT !.reported = "err", !.pc = "failed" ]
    /\ UNCHANGED <<scheduler_vars, executor, docker>>

\* main.rs 302-306: the report fails and run tries to reconnect
report_err ==
    /\ agent.pc = "report"
    /\ agent' = connect_enter([ agent EXCEPT !.reported = "err" ], "loop")
    /\ UNCHANGED <<scheduler_vars, executor, docker>>

(***************************************************************************)
(* AgentSpec: one worker agent with a retry ceiling of 0..MaxRetries       *)
(***************************************************************************)
AgentNext ==
    \/ \E max_retries \in 0..MaxRetries : run(max_retries)
    \/ connect_ok
    \/ connect_err
    \/ connect_sleep
    \/ connect_bail
    \/ register_ok
    \/ register_err
    \/ tick
    \/ report_ok
    \/ report_err

AgentSpec == Init /\ [][AgentNext]_vars

\* the scheduler stays reachable or unreachable for ever only by chance: the
\* agent itself always takes its next step
AgentLiveSpec == AgentSpec /\ WF_vars(AgentNext)

(***************************************************************************)
(* The job executor of the worker (src/worker/src/executor.rs).  The       *)
(* Docker daemon is its environment: create, start, wait and remove can    *)
(* succeed or fail; pull_image and get_logs only log the errors they meet. *)
(***************************************************************************)
\* the container name of a job, "tgp-job-{job_id}" (executor.rs 149)
ContainerOf(job_id) == <<"tgp-job", job_id>>

\* executor.rs 45-50: a call starts; pull_image always returns Ok
execute_job(job_id) ==
    /\ executor.pc \in {"idle", "returned"}
    /\ executor' = [ NoExecutor EXCEPT !.pc = "create", !.job_id = job_id ]
    /\ UNCHANGED <<scheduler_vars, agent, docker>>

\* executor.rs 53, 122-162: the daemon creates the container
create_container_ok ==
    /\ executor.pc = "create"
    /\ ContainerOf(executor.job_id) \notin docker
    /\ docker' = docker \cup {ContainerOf(executor.job_id)}
    /\ executor' = [ executor EXCEPT
                       !.container_id = Some(ContainerOf(executor.job_id)),
                       !.created = Some(ContainerOf(executor.job_id)),
                       !.pc = "start" ]
    /\ UNCHANGED <<scheduler_vars, agent>>

\* the daemon refuses (name in use, no such image, ...): `?` returns
create_container_err ==
    /\ executor.pc = "create"
    /\ executor' = [ executor EXCEPT !.result = "err",
                                     !.error = "Failed to create container",
                                     !.pc = "returned" ]
    /\ UNCHANGED <<scheduler_vars, agent, docker>>

\* executor.rs 56-60: the container starts
start_container_ok ==
    /\ executor.pc = "start"
    /\ executor' = [ executor EXCEPT !.pc = "wait" ]
    /\ UNCHANGED <<scheduler_vars, agent, docker>>

\* executor.rs 59-60: start fails and `?` returns the error
start_container_err ==
    /\ executor.pc = "start"
    /\ executor' = [ executor EXCEPT !.result = "err",
                                     !.error = "Failed to start container",
                                     !.pc = "returned" ]
    /\ UNCHANGED <<scheduler_vars, agent, docker>>

\* executor.rs 63, 165-191: the container exits with a code (an empty wait
\* stream counts as code 0)
wait_for_completion_ok(code) ==
    /\ executor.pc = "wait"
    /\ executor' = [ executor EXCEPT !.exit_code = code, !.pc = "logs" ]
    /\ UNCHANGED <<scheduler_vars, agent, docker>>

\* executor.rs 184-186, 63: the wait stream yields an error, `?` returns it
wait_for_completion_err ==
    /\ executor.pc = "wait"
    /\ executor' = [ executor EXCEPT !.result = "err",
                                     !.error = "Error waiting for container",
                                     !.pc = "returned" ]
    /\ UNCHANGED <<scheduler_vars, agent, docker>>

\* executor.rs 66, 194-218: get_logs returns Ok whatever the stream yields
get_logs ==
    /\ executor.pc = "logs"
    /\ executor' = [ executor EXCEPT !.pc = "cleanup" ]
    /\ UNCHANGED <<scheduler_vars, agent, docker>>

\* executor.rs 69, 221-245: stop (result ignored) and remove succeed;
\* execute_job returns Ok(JobResult)
cleanup_container_ok ==
    /\ executor.pc = "cleanup"
    /\ docker' = docker \ {Unwrap(executor.container_id)}
    /\ executor' = [ executor EXCEPT !.result = "ok", !.pc = "returned" ]
    /\ UNCHANGED <<scheduler_vars, agent>>

\* executor.rs 238-241, 69: remove fails and `?` returns the error
cleanup_container_err ==
    /\ executor.pc = "cleanup"
    /\ executor' = [ executor EXCEPT !.result = "err",
                                     !.error = "Failed to remove container",
                                     !.pc = "returned" ]
    /\ UNCHANGED <<scheduler_vars, agent, docker>>

(***************************************************************************)
(* ExecSpec: execute_job called again and again for three job ids          *)
(***************************************************************************)
ExitCodes == {0, 1}

ExecJobIds == {"j1", "j2", "j3"}

ExecNext ==
    \/ \E job_id \in ExecJobIds : execute_job(job_id)
    \/ create_container_ok
    \/ create_container_err
    \/ start_container_ok
    \/ start_container_err
    \/ \E code \in ExitCodes : wait_for_completion_ok(code)
    \/ wait_for_completion_err
    \/ get_logs
    \/ cleanup_container_ok
    \/ cleanup_container_err

ExecSpec == Init /\ [][ExecNext]_vars

(***************************************************************************)
(* ReadSpec: one schedule call and register_node, with up to MaxReads      *)
(* status reads between two writes.                                        *)
(***************************************************************************)
ReadNext ==
    \/ (\E n \in Nodes : register_node(n)) /\ UNCHANGED ext_pc
    \/ \E j \in Jobs : schedule_create(1, j)
    \/ schedule_step(1)
    \/ /\ Len(observed) < MaxReads
       /\ \E id \in JobIds : get_job_state_call(id)
       /\ UNCHANGED ext_pc
    \/ Len(observed) < MaxReads /\ node_count_call /\ UNCHANGED ext_pc
    \/ Len(observed) < MaxReads /\ cluster_status_call /\ UNCHANGED ext_pc

ReadSpec == Init /\ [][ReadNext]_vars

(***************************************************************************)
(* RegSpec: one schedule call while nodes are registered and re-registered *)
(* with other capacities, locations and prices at any moment.              *)
(***************************************************************************)
RegNodes ==
    [ id : NodeIds, available_cpu : {1, 2}, available_memory_gb : {2},
      available_gpu : {0}, location : {"vps-1", "vps-2"},
      cost_per_hour : {1, 2} ]

RegJobs ==
    [ id : {"j1"}, job_type : {"Inference"},
      resources : [ cpu_cores : {1}, memory_gb : {2}, gpu_count : {0},
                    disk_gb : {10} ],
      sla : [ max_latency_ms : {50, 1000},
              max_budget_usd : {None, Some(1)},
              deadline : {None} ] ]

RegNext ==
    \/ (\E n \in RegNodes : register_node(n)) /\ UNCHANGED ext_pc
    \/ \E j \in RegJobs : schedule_create(1, j)
    \/ schedule_step(1)

RegSpec == Init /\ [][RegNext]_vars

(***************************************************************************)
(* What the specification says of a node and a job, written from the       *)
(* specification's wording (steps 3-7 of the placement algorithm), used    *)
(* only to state the properties below.                                     *)
(***************************************************************************)
SpecFits(j, n) ==
    /\ n.available_cpu >= j.resources.cpu_cores
    /\ n.available_memory_gb >= j.resources.memory_gb
    /\ n.available_gpu >= j.resources.gpu_count

SpecLatency(n) ==
    50 + (IF n.available_cpu < 2 THEN 50 ELSE 0)
       + (IF n.available_memory_gb < 2 THEN 30 ELSE 0)

\* pricePerHour * 1.0 * 1.0, no data transfer, no idle cost
SpecCost(n) == n.cost_per_hour

SpecWithinBudget(j, n) ==
    IsSome(j.sla.max_budget_usd) => SpecCost(n) <= Unwrap(j.sla.max_budget_usd)

SpecFeasible(j, n) ==
    /\ SpecFits(j, n)
    /\ SpecLatency(n) <= j.sla.max_latency_ms
    /\ SpecWithinBudget(j, n)

\* the step in which call c returns to its caller
Returns(c) == pc[c] # "done" /\ pc'[c] = "done"

\* the step in which call c returns a Placement
ReturnsPlacement(c) == Returns(c) /\ result'[c].kind = "ok"

\* the Placement call c returns in that step
Returned(c) == Unwrap(result'[c].placement)

\* the job of call c
JobOf(c) == Unwrap(job[c])

\* call c has returned a Placement
HasPlacement(c) == pc[c] = "done" /\ result[c].kind = "ok"

(***************************************************************************)
(* Properties of one schedule call (stated for SeqSpec)                    *)
(***************************************************************************)

\* C1: whenever schedule returns a Placement, the chosen node is a node of
\* the call's snapshot that passes the resource-fit check, the latency check
\* and the budget check, and the placement's estimated_cost.total_usd is at
\* most the total cost of every snapshot node that passes the three checks.
C1_MinimumCost ==
    [][ \A c \in Calls :
          ReturnsPlacement(c) =>
            /\ Returned(c).node_id \in DOMAIN nodes[c]
            /\ SpecFeasible(JobOf(c), nodes[c][Returned(c).node_id])
            /\ \A id \in DOMAIN nodes[c] :
                  SpecFeasible(JobOf(c), nodes[c][id]) =>
                     Returned(c).estimated_cost.total_usd <= SpecCost(nodes[c][id])
      ]_vars

\* a call returned the node of cost 1 while the registry (the snapshot of
\* the call: SeqSpec registers nothing once a call has started) holds two
\* feasible nodes of costs 1 and 2
C1_Witness ==
    \E c \in Calls :
       /\ HasPlacement(c)
       /\ Unwrap(result[c].placement).estimated_cost.total_usd = 1
       /\ DOMAIN available_nodes = NodeIds
       /\ \A id \in NodeIds : SpecFeasible(JobOf(c), available_nodes[id])
       /\ \E id \in NodeIds : SpecCost(available_nodes[id]) = 2

\* C2: whenever schedule returns a Placement, the chosen node, as it was in
\* the call's snapshot, has available_cpu >= cpu_cores, available_memory_gb
\* >= memory_gb and available_gpu >= gpu_count; and the resource check of
\* the call accepts a snapshot node exactly when it is short in none of the
\* three (equal capacity is accepted).
C2_ResourceFit ==
    [][ \A c \in Calls :
          /\ ReturnsPlacement(c) =>
               /\ Returned(c).node_id \in DOMAIN nodes[c]
               /\ SpecFits(JobOf(c), nodes[c][Returned(c).node_id])
          /\ Returns(c) =>
               \A id \in DOMAIN nodes[c] :
                  check_resource_fit(JobOf(c).resources, nodes[c][id])
                     <=> SpecFits(JobOf(c), nodes[c][id])
      ]_vars

\* a call returned a node whose capacity equals the job's requirement in
\* all three resources
C2_Witness ==
    \E c \in Calls :
       /\ HasPlacement(c)
       /\ LET n == available_nodes[Unwrap(result[c].placement).node_id]
              r == JobOf(c).resources
          IN  /\ n.available_cpu = r.cpu_cores
              /\ n.available_memory_gb = r.memory_gb
              /\ n.available_gpu = r.gpu_count
              /\ r.gpu_count = 1

\* C3: when max_budget_usd is set, schedule never returns a Placement whose
\* estimated_cost.total_usd exceeds it; the budget test of the call rejects
\* a snapshot node exactly when the budget is set and the node's cost is
\* strictly greater (equal cost is accepted, an absent budget rejects
\* nothing).
C3_Budget ==
    [][ \A c \in Calls :
          /\ ReturnsPlacement(c) =>
               (IsSome(JobOf(c).sla.max_budget_usd) =>
                  Returned(c).estimated_cost.total_usd
                     <= Unwrap(JobOf(c).sla.max_budget_usd))
          /\ Returns(c) =>
               \A id \in DOMAIN nodes[c] :
                  exceeds_budget(JobOf(c), placement_cost(nodes[c][id]))
                     <=> /\ IsSome(JobOf(c).sla.max_budget_usd)
                         /\ SpecCost(nodes[c][id])
                               > Unwrap(JobOf(c).sla.max_budget_usd)
      ]_vars

\* a call with a budget returned a Placement whose cost equals the budget,
\* while another registered node that fits the job costs more than the budget
C3_Witness ==
    \E c \in Calls :
       /\ HasPlacement(c)
       /\ IsSome(JobOf(c).sla.max_budget_usd)
       /\ Unwrap(result[c].placement).estimated_cost.total_usd
             = Unwrap(JobOf(c).sla.max_budget_usd)
       /\ \E id \in DOMAIN available_nodes :
             /\ SpecFits(JobOf(c), available_nodes[id])
             /\ SpecCost(available_nodes[id]) > Unwrap(JobOf(c).sla.max_budget_usd)

\* C4: schedule never returns a Placement whose estimated_latency_ms exceeds
\* max_latency_ms; the latency test of the call rejects a snapshot node
\* exactly when its estimated latency is strictly greater than
\* max_latency_ms (equal latency is accepted).
C4_Latency ==
    [][ \A c \in Calls :
          /\ ReturnsPlacement(c) =>
               /\ Returned(c).estimated_latency_ms <= JobOf(c).sla.max_latency_ms
               /\ Returned(c).estimated_latency_ms
                     = SpecLatency(nodes[c][Returned(c).node_id])
          /\ Returns(c) =>
               \A id \in DOMAIN nodes[c] :
                  violates_latency(JobOf(c), nodes[c][id])
                     <=> SpecLatency(nodes[c][id]) > JobOf(c).sla.max_latency_ms
      ]_vars

\* a call returned a Placement whose estimated latency equals max_latency_ms
\* (100 ms: a node under CPU pressure), while another registered node that
\* fits the job has a greater estimated latency
C4_Witness ==
    \E c \in Calls :
       /\ HasPlacement(c)
       /\ Unwrap(result[c].placement).estimated_latency_ms = 100
       /\ JobOf(c).sla.max_latency_ms = 100
       /\ \E id \in DOMAIN available_nodes :
             /\ SpecFits(JobOf(c), available_nodes[id])
             /\ SpecLatency(available_nodes[id]) > 100

\* C8: if the snapshot is non-empty and every node in it fails the
\* resource-fit check, the latency check or the budget check, schedule fails
\* with the 'No suitable node' failure, which differs from the 'No nodes
\* available' failure, returns no Placement, and leaves the job's record
\* with status Failed.
C8_NoFeasiblePlacement ==
    [][ \A c \in Calls :
          ( /\ Returns(c)
            /\ DOMAIN nodes[c] # {}
            /\ \A id \in DOMAIN nodes[c] : ~SpecFeasible(JobOf(c), nodes[c][id]) )
          => /\ result'[c] = Err(NoSuitableNode)
             /\ NoSuitableNode # NoNodesAvailable
             /\ ~IsSome(result'[c].placement)
             /\ JobOf(c).id \in DOMAIN job_states'
             /\ job_states'[JobOf(c).id].status = "Failed"
      ]_vars

\* a call failed with 'No suitable node' and its record is Failed, while
\* the registry holds one node that fits the job but is too slow and one
\* that fits and is fast enough but costs more than the budget
C8_Witness ==
    \E c \in Calls :
       /\ pc[c] = "done"
       /\ result[c] = Err(NoSuitableNode)
       /\ job_states[JobOf(c).id].status = "Failed"
       /\ \E a, b \in DOMAIN available_nodes :
             /\ SpecFits(JobOf(c), available_nodes[a])
             /\ SpecLatency(available_nodes[a]) > JobOf(c).sla.max_latency_ms
             /\ SpecFits(JobOf(c), available_nodes[b])
             /\ SpecLatency(available_nodes[b]) <= JobOf(c).sla.max_latency_ms
             /\ ~SpecWithinBudget(JobOf(c), available_nodes[b])

\* C9: if at least one node of the call's snapshot passes the resource-fit
\* check, the latency check and the budget check, schedule returns a
\* Placement, whatever the nodes' costs, the largest representable cost
\* (the initial value of the running minimum) included.
C9_Completeness ==
    [][ \A c \in Calls :
          ( /\ Returns(c)
            /\ \E id \in DOMAIN nodes[c] : SpecFeasible(JobOf(c), nodes[c][id]) )
          => result'[c].kind = "ok"
      ]_vars

(***************************************************************************)
(* Properties of concurrent calls (stated for Spec)                        *)
(***************************************************************************)

\* no other call that has started was given the job id of call c
UniqueJobId(c) ==
    \A d \in Calls \ {c} : pc[d] # "idle" => JobOf(d).id # JobOf(c).id

\* the step is a step of call c
StepOf(c) == pc'[c] # pc[c]

\* every job record but the one of job_id is the same before and after
OtherRecordsUnchanged(job_id) ==
    /\ DOMAIN job_states' \ {job_id} = DOMAIN job_states \ {job_id}
    /\ \A id \in DOMAIN job_states \ {job_id} : job_states'[id] = job_states[id]

\* C5: in any interleaving of register_node calls and schedule calls with
\* distinct job ids, when a schedule call returns, the record of its job is
\* Scheduled with the returned node and the returned cost if it returned a
\* Placement, and Failed otherwise; and no step of a call changes the
\* record of a job id other than its own.
C5_RecordMatchesResult ==
    [][ \A c \in Calls :
          /\ (Returns(c) /\ UniqueJobId(c)) =>
               /\ JobOf(c).id \in DOMAIN job_states'
               /\ LET r == job_states'[JobOf(c).id]
                  IN  IF result'[c].kind = "ok"
                      THEN /\ r.status = "Scheduled"
                           /\ r.assigned_node = Some(Returned(c).node_id)
                           /\ r.estimated_cost = Some(Returned(c).estimated_cost)
                      ELSE r.status = "Failed"
          /\ StepOf(c) => OtherRecordsUnchanged(Unwrap(job'[c]).id)
      ]_vars

\* a call has returned a Placement and its record holds the returned node
\* and cost, while a call for another job id, which snapshotted a different
\* registry, is between its two job-state writes
C5_Witness ==
    \E c, d \in Calls :
       /\ HasPlacement(c)
       /\ pc[d] = "recorded"
       /\ JobOf(d).id # JobOf(c).id
       /\ nodes[d] # available_nodes
       /\ job_states[JobOf(c).id].status = "Scheduled"
       /\ job_states[JobOf(c).id].assigned_node
             = Some(Unwrap(result[c].placement).node_id)
       /\ job_states[JobOf(c).id].estimated_cost
             = Some(Unwrap(result[c].placement).estimated_cost)

\* C6: recording a successful placement is atomic: get_job_state never
\* returns a record with status Scheduled and an assigned node whose
\* estimated_cost is still absent.
C6_AtomicRecord ==
    \A id \in JobIds :
       LET r == get_job_state(id)
       IN  IsSome(r) =>
              ~ ( /\ Unwrap(r).status = "Scheduled"
                  /\ IsSome(Unwrap(r).assigned_node)
                  /\ ~IsSome(Unwrap(r).estimated_cost) )

\* C7: a schedule call whose snapshot is empty fails with 'No nodes
\* available', returns no Placement and leaves its job's record with status
\* Failed, no assigned node and no estimated cost; the call changes no other
\* job record and no node record.
C7_EmptyCluster ==
    [][ \A c \in Calls :
          /\ (Returns(c) /\ DOMAIN nodes[c] = {}) =>
               /\ result'[c] = Err(NoNodesAvailable)
               /\ ~IsSome(result'[c].placement)
               /\ JobOf(c).id \in DOMAIN job_states'
               /\ job_states'[JobOf(c).id]
                     = [ PendingState(JobOf(c).id) EXCEPT !.status = "Failed" ]
          /\ StepOf(c) =>
               /\ available_nodes' = available_nodes
               /\ OtherRecordsUnchanged(Unwrap(job'[c]).id)
      ]_vars

\* C10: submitting a job id that already has a record does not reset the
\* record: the creation step of schedule leaves an existing record's
\* status, assigned_node and estimated_cost as they were.
C10_NoResetOnReplay ==
    [][ \A c \in Calls :
          ( /\ pc[c] = "idle"
            /\ pc'[c] = "created"
            /\ Unwrap(job'[c]).id \in DOMAIN job_states )
          => job_states'[Unwrap(job'[c]).id] = job_states[Unwrap(job'[c]).id]
      ]_vars

(***************************************************************************)
(* The job status state machine                                            *)
(***************************************************************************)

\* the edges of the JobStatus state machine of the data model
StatusEdges ==
    { <<"Pending", "Scheduled">>, <<"Scheduled", "Running">>,
      <<"Running", "Completed">>, <<"Pending", "Failed">>,
      <<"Scheduled", "Failed">> }

\* C11: Completed and Failed are terminal: once a job record has status
\* Completed or Failed, no step changes its status (or removes the record).
C11_TerminalStatus ==
    [][ \A id \in DOMAIN job_states :
          job_states[id].status \in {"Completed", "Failed"} =>
             /\ id \in DOMAIN job_states'
             /\ job_states'[id].status = job_states[id].status
      ]_vars

\* C12: every change of a job record's status is one of the edges
\* Pending->Scheduled, Scheduled->Running, Running->Completed,
\* Pending->Failed, Scheduled->Failed.
C12_StatusEdges ==
    [][ \A id \in DOMAIN job_states \cap DOMAIN job_states' :
          job_states'[id].status # job_states[id].status =>
             <<job_states[id].status, job_states'[id].status>> \in StatusEdges
      ]_vars

\* C13: the node a schedule call chooses does not depend on the order in
\* which the node map is iterated: every iteration order of the call's
\* snapshot yields the node_id the call chose.
C13_DeterministicTieBreak ==
    \A c \in Calls :
       (pc[c] = "evaluated" /\ IsSome(best_placement[c])) =>
          \A o \in IterationOrders(DOMAIN nodes[c]) :
             /\ IsSome(evaluate(JobOf(c), nodes[c], o))
             /\ Unwrap(evaluate(JobOf(c), nodes[c], o)).node_id
                   = Unwrap(best_placement[c]).node_id

(***************************************************************************)
(* Claims about the node registry and the snapshot (RegSpec)               *)
(***************************************************************************)

\* C14: a schedule call decides on its snapshot only: while the call is
\* between its snapshot and its return, no step of another caller changes
\* its snapshot or its decision, and the placement it returns names a node
\* of the snapshot, with the cost and the latency of the snapshot's record.
C14_SnapshotDecision ==
    [][ \A c \in Calls :
          /\ (pc[c] \in {"snapshot", "evaluated", "recorded"} /\ pc'[c] = pc[c]) =>
                /\ nodes'[c] = nodes[c]
                /\ best_placement'[c] = best_placement[c]
          /\ ReturnsPlacement(c) =>
                /\ Returned(c).node_id \in DOMAIN nodes[c]
                /\ LET n == nodes[c][Returned(c).node_id] IN
                      /\ Returned(c).estimated_cost.total_usd = SpecCost(n)
                      /\ Returned(c).estimated_cost.compute_usd = SpecCost(n)
                      /\ Returned(c).estimated_latency_ms = SpecLatency(n)
                      /\ SpecFeasible(JobOf(c), n)
      ]_vars

\* a call has decided, and the node it chose has since been re-registered
\* at another price
C14_Witness ==
    \E c \in Calls :
       /\ pc[c] = "recorded"
       /\ LET p == Unwrap(best_placement[c]) IN
             /\ p.node_id \in DOMAIN available_nodes
             /\ available_nodes[p.node_id].cost_per_hour
                   # nodes[c][p.node_id].cost_per_hour
             /\ p.estimated_cost.total_usd = nodes[c][p.node_id].cost_per_hour
             /\ DOMAIN available_nodes # DOMAIN nodes[c]

\* C15: register_node(n) makes the registry map n.id to exactly n, leaves
\* every other id as it was, raises node_count by one when the id is new
\* and leaves it otherwise; a snapshot is a copy of the registry as it is
\* when the snapshot is taken.
C15_RegisterNode ==
    [][ /\ \A n \in RegNodes :
             register_node(n) =>
                /\ DOMAIN available_nodes' = DOMAIN available_nodes \cup {n.id}
                /\ available_nodes'[n.id] = n
                /\ \A id \in DOMAIN available_nodes \ {n.id} :
                      available_nodes'[id] = available_nodes[id]
                /\ node_count' = IF n.id \in DOMAIN available_nodes
                                 THEN node_count ELSE node_count + 1
        /\ \A c \in Calls :
             (pc[c] = "created" /\ pc'[c] = "snapshot") =>
                nodes'[c] = available_nodes
      ]_vars

\* a snapshot holds the older record of a node that has since been wholly
\* replaced, next to a node registered before it
C15_Witness ==
    \E c \in Calls :
       /\ pc[c] = "snapshot"
       /\ node_count = 2
       /\ \E id \in DOMAIN nodes[c] :
             /\ nodes[c][id].location # available_nodes[id].location
             /\ nodes[c][id].cost_per_hour # available_nodes[id].cost_per_hour
             /\ nodes[c][id].available_cpu # available_nodes[id].available_cpu

(***************************************************************************)
(* Claims about the mutexes (LockSpec, LiveSpec)                           *)
(***************************************************************************)
Threads == { Call(c) : c \in Calls } \cup { External(t) : t \in Externals }

Holds(t, m) == lock[m] = Some(t)

\* C16: no thread ever holds the job-state mutex and the node-registry
\* mutex at once; a schedule call holds the job-state mutex only for its
\* creation step and its finalizing steps, the node-registry mutex only for
\* its snapshot, in that order, and neither while it evaluates.
C16_LockDiscipline ==
    /\ \A t \in Threads :
          ~(Holds(t, "job_states") /\ Holds(t, "available_nodes"))
    /\ \A c \in Calls :
          /\ Holds(Call(c), "available_nodes") => pc[c] = "created"
          /\ Holds(Call(c), "job_states") =>
                \/ pc[c] \in {"idle", "evaluated", "recorded"}
                \/ pc[c] = "snapshot" /\ DOMAIN nodes[c] = {}
          /\ (pc[c] = "snapshot" /\ DOMAIN nodes[c] # {}) =>
                \A m \in Mutexes : ~Holds(Call(c), m)
          /\ pc[c] = "done" => \A m \in Mutexes : ~Holds(Call(c), m)

\* one call holds the node-registry mutex for its snapshot while another
\* holds the job-state mutex to record its placement
C16_Witness ==
    \E c, d \in Calls :
       /\ Holds(Call(c), "available_nodes")
       /\ Holds(Call(d), "job_states")
       /\ pc[d] = "evaluated"
       /\ IsSome(best_placement[d])

\* some thread in progress can take a step
Progress ==
    \/ \E c \in Calls : call_step(c)
    \/ \E t \in Externals : ext_finish(t)

\* C17: with every thread that can take a step eventually taking one, and
\* finitely many calls of schedule, register_node, get_job_state and
\* update_job_state, no state is reached where a schedule call in progress
\* is left with no thread able to move, and every schedule call in progress
\* eventually returns.
C17_Termination ==
    /\ []((\E c \in Calls : Started(c) /\ pc[c] # "done") => ENABLED Progress)
    /\ \A c \in Calls : Started(c) ~> (pc[c] = "done")

\* a call has evaluated and needs the job-state mutex, which another call
\* holds for its last step; get_job_state and update_job_state have not
\* obtained it yet either
C17_Witness ==
    \E c, d \in Calls :
       /\ pc[c] = "evaluated"
       /\ pc[d] = "recorded"
       /\ Holds(Call(d), "job_states")
       /\ ext_pc["get_job_state"] = "idle"
       /\ ext_pc["update_job_state"] = "idle"

(***************************************************************************)
(* Claims about the registry under schedule (Spec)                         *)
(***************************************************************************)

\* C18: no step of a schedule call changes the node registry: the set of
\* registered nodes and every field of every NodeInfo are the same after
\* the step as before it.
C18_RegistryFrame ==
    [][ \A c \in Calls : StepOf(c) => available_nodes' = available_nodes ]_vars

\* a call has returned a Placement for a job that needs all the cpu of the
\* chosen node, and the registry still shows the node with all its cpu
C18_Witness ==
    \E c \in Calls :
       /\ HasPlacement(c)
       /\ job_states[JobOf(c).id].status = "Scheduled"
       /\ LET id == Unwrap(result[c].placement).node_id IN
             /\ id \in DOMAIN available_nodes
             /\ available_nodes[id] \in Nodes
             /\ available_nodes[id].available_cpu = JobOf(c).resources.cpu_cores

\* the node is the only node of call c's snapshot that is feasible for its
\* job, and the job needs all of the node's cpu
OnlyFeasibleFullNode(c, id) ==
    /\ id \in DOMAIN nodes[c]
    /\ SpecFeasible(JobOf(c), nodes[c][id])
    /\ \A other \in DOMAIN nodes[c] \ {id} : ~SpecFeasible(JobOf(c), nodes[c][other])
    /\ JobOf(c).resources.cpu_cores = nodes[c][id].available_cpu
    /\ SpecCost(nodes[c][id]) < F64_MAX

\* C19: a schedule call whose snapshot has a single feasible node, all of
\* whose cpu the job needs, returns a Placement on that node whatever jobs
\* are already Scheduled on it; so the cpu_cores of the jobs Scheduled on a
\* node can add up to more than its available_cpu (C19_Witness).
C19_NoCapacityCheck ==
    [][ \A c \in Calls : \A id \in NodeIds :
          (Returns(c) /\ OnlyFeasibleFullNode(c, id)) =>
             /\ result'[c].kind = "ok"
             /\ Returned(c).node_id = id
      ]_vars

\* two calls for distinct jobs have both returned a Placement on the same
\* node and both jobs are Scheduled on it: the sum of their cpu_cores
\* exceeds the node's available_cpu
C19_Witness ==
    \E c, d \in Calls : \E id \in DOMAIN available_nodes :
       /\ DOMAIN available_nodes = {id}
       /\ HasPlacement(c) /\ HasPlacement(d)
       /\ JobOf(c).id # JobOf(d).id
       /\ Unwrap(result[c].placement).node_id = id
       /\ Unwrap(result[d].placement).node_id = id
       /\ JobOf(c).resources.cpu_cores = available_nodes[id].available_cpu
       /\ JobOf(d).resources.cpu_cores = available_nodes[id].available_cpu
       /\ scheduled_cpu(id) > available_nodes[id].available_cpu

(***************************************************************************)
(* Claims about the status reads (ReadSpec)                                *)
(***************************************************************************)

\* the step is a status read, and the value it returned
ReadStep == Len(observed') = Len(observed) + 1

LastRead == observed'[Len(observed')]

\* C20: get_job_state, node_count and cluster_status change neither store,
\* and a get_job_state call returns the same JobState as every earlier
\* get_job_state call for the same id since the last write.
C20_ReadsHaveNoEffect ==
    [][ ReadStep =>
          /\ job_states' = job_states
          /\ available_nodes' = available_nodes
          /\ \A i \in 1..Len(observed) :
                (/\ LastRead.op = "get_job_state"
                 /\ observed[i].op = "get_job_state"
                 /\ observed[i].arg = LastRead.arg) =>
                   observed[i].value = LastRead.value
      ]_vars

\* two consecutive get_job_state calls for a Scheduled job, no write in
\* between
C20_Witness ==
    /\ Len(observed) = 2
    /\ observed[1].op = "get_job_state" /\ observed[2].op = "get_job_state"
    /\ observed[1].arg = observed[2].arg
    /\ IsSome(observed[1].value)
    /\ Unwrap(observed[1].value).status = "Scheduled"
    /\ observed[2].value = observed[1].value
    /\ node_count = 2

(***************************************************************************)
(* Claims about update_job_state called by other threads (ExtSpec)         *)
(***************************************************************************)
UpdateArgs == JobIds \X JobStatuses \X {None, Some("n2")}

\* C21: update_job_state for a job id without a record returns Ok, creates
\* no record, and leaves every job record and the node registry unchanged.
C21_UnknownJobNoOp ==
    [][ \A a \in UpdateArgs :
          (/\ a[1] \notin DOMAIN job_states
           /\ Len(observed') = 1
           /\ update_job_state_call(a[1], a[2], a[3])) =>
             /\ observed'[1].value = OkUnit
             /\ a[1] \notin DOMAIN job_states'
             /\ job_states' = job_states
             /\ available_nodes' = available_nodes
      ]_vars

\* update_job_state has returned Ok for a job id that has no record, next
\* to the record of another job and a registered node
C21_Witness ==
    /\ Len(observed) = 1
    /\ observed[1].op = "update_job_state"
    /\ observed[1].value = OkUnit
    /\ observed[1].arg \notin DOMAIN job_states
    /\ DOMAIN job_states # {}
    /\ DOMAIN available_nodes # {}

\* C22: update_job_state for a job id with a record sets its status to the
\* new status, sets its assigned_node when a node is given and leaves it
\* otherwise, and changes neither its estimated_cost, its job_id, nor the
\* record of any other job.
C22_UpdateFrame ==
    [][ \A a \in UpdateArgs :
          (/\ a[1] \in DOMAIN job_states
           /\ Len(observed') = 1
           /\ update_job_state_call(a[1], a[2], a[3])) =>
             /\ a[1] \in DOMAIN job_states'
             /\ job_states'[a[1]].status = a[2]
             /\ job_states'[a[1]].assigned_node =
                   IF IsSome(a[3]) THEN a[3] ELSE job_states[a[1]].assigned_node
             /\ job_states'[a[1]].estimated_cost = job_states[a[1]].estimated_cost
             /\ job_states'[a[1]].job_id = job_states[a[1]].job_id
             /\ OtherRecordsUnchanged(a[1])
             /\ available_nodes' = available_nodes
      ]_vars

\* update_job_state has set a scheduled job to Running: the record keeps
\* the node and the cost schedule stored, next to another job's record
C22_Witness ==
    /\ Len(observed) = 1
    /\ observed[1].op = "update_job_state"
    /\ observed[1].arg \in DOMAIN job_states
    /\ LET r == job_states[observed[1].arg] IN
          /\ r.status = "Running"
          /\ r.assigned_node = Some("n1")
          /\ IsSome(r.estimated_cost)
    /\ Cardinality(DOMAIN job_states) = 2

(***************************************************************************)
(* Claims about the cost engine (CostSpec)                                 *)
(***************************************************************************)
Additive(cost) ==
    cost.total_usd =
       FAdd(FAdd(cost.compute_usd, cost.data_transfer_usd),
            cost.idle_opportunity_usd)

\* C23: every TotalCost that TotalCost::new or total_cost produced, every
\* estimated_cost of a job record and every estimated_cost of a Placement
\* has total_usd = compute_usd + data_transfer_usd + idle_opportunity_usd.
C23_CostAdditivity ==
    /\ \A i \in 1..Len(observed) :
          observed[i].op \in {"TotalCost::new", "total_cost"} =>
             Additive(observed[i].value)
    /\ \A id \in DOMAIN job_states :
          IsSome(job_states[id].estimated_cost) =>
             Additive(Unwrap(job_states[id].estimated_cost))
    /\ \A c \in Calls :
          /\ IsSome(best_placement[c]) =>
                Additive(Unwrap(best_placement[c]).estimated_cost)
          /\ result[c].kind = "ok" =>
                Additive(Unwrap(result[c].placement).estimated_cost)

\* total_cost has produced a cost with three positive components while a
\* job record holds the cost of its placement
C23_Witness ==
    /\ Len(observed) = 1
    /\ observed[1].op = "total_cost"
    /\ observed[1].value.compute_usd = 4
    /\ observed[1].value.data_transfer_usd = 2
    /\ observed[1].value.idle_opportunity_usd = 1
    /\ observed[1].value.total_usd = 7
    /\ \E id \in DOMAIN job_states : IsSome(job_states[id].estimated_cost)

(***************************************************************************)
(* Properties of the placement's cost, latency and unused job fields       *)
(***************************************************************************)

\* C24: whenever schedule returns a Placement, its estimated cost has
\* compute_usd and total_usd equal to the chosen node's cost_per_hour and
\* data_transfer_usd and idle_opportunity_usd equal to 0, whatever the job's
\* type and resource amounts
C24_PlacementCost ==
    [][ \A c \in Calls : ReturnsPlacement(c) =>
          LET node == nodes[c][Returned(c).node_id]
          IN  Returned(c).estimated_cost =
                [ compute_usd |-> node.cost_per_hour,
                  data_transfer_usd |-> 0,
                  idle_opportunity_usd |-> 0,
                  total_usd |-> node.cost_per_hour ] ]_vars

\* a Training job asking for one core and 1000 GB of disk was placed on a
\* node of price 2 and its Placement carries the cost 2
C24_Witness ==
    /\ HasPlacement(1)
    /\ JobOf(1).job_type = "Training"
    /\ JobOf(1).resources.cpu_cores = 1
    /\ JobOf(1).resources.disk_gb = 1000
    /\ available_nodes[Unwrap(result[1].placement).node_id].cost_per_hour = 2
    /\ Unwrap(result[1].placement).estimated_cost.total_usd = 2
    /\ Unwrap(result[1].placement).estimated_cost.compute_usd = 2

\* two nodes with the same available_cpu and available_memory_gb
SamePressure(n, m) ==
    /\ n.available_cpu = m.available_cpu
    /\ n.available_memory_gb = m.available_memory_gb

\* C25: the estimated latency of every node is 50, plus 50 when
\* available_cpu < 2, plus 30 when available_memory_gb < 2, hence one of
\* 50, 80, 100, 130; it is the same for nodes with the same available_cpu and
\* available_memory_gb; and every returned Placement carries this value for
\* its chosen node
C25_EstimatedLatency ==
    [][ /\ \A id \in DOMAIN available_nodes' :
              LET n == available_nodes'[id]
              IN  /\ estimate_latency(n) = SpecLatency(n)
                  /\ estimate_latency(n) \in {50, 80, 100, 130}
                  /\ \A m \in AllNodes : SamePressure(n, m) =>
                         estimate_latency(m) = estimate_latency(n)
        /\ \A c \in Calls : ReturnsPlacement(c) =>
              Returned(c).estimated_latency_ms =
                 SpecLatency(nodes[c][Returned(c).node_id]) ]_vars

\* a Placement on a node with one core and 1 GB carries the latency 130
C25_Witness ==
    /\ HasPlacement(1)
    /\ Unwrap(result[1].placement).estimated_latency_ms = 130
    /\ LET n == available_nodes[Unwrap(result[1].placement).node_id]
       IN  n.available_cpu = 1 /\ n.available_memory_gb = 1

\* jobs that differ at most in disk_gb, job_type and deadline
SameButUnused(j, k) ==
    k = [ j EXCEPT !.resources.disk_gb = k.resources.disk_gb,
                   !.job_type = k.job_type,
                   !.sla.deadline = k.sla.deadline ]

\* the nodes of a snapshot that pass the three tests of the loop for job j
FeasibleNodes(j, snapshot) ==
    { id \in DOMAIN snapshot :
         /\ check_resource_fit(j.resources, snapshot[id])
         /\ ~violates_latency(j, snapshot[id])
         /\ ~exceeds_budget(j, placement_cost(snapshot[id])) }

\* success or failure of the loop, and the minimum cost on success
Outcome(best) ==
    IF IsSome(best) THEN <<"ok", Unwrap(best).estimated_cost.total_usd>>
    ELSE <<"err">>

\* C26: disk_gb, job_type and deadline do not influence scheduling: when a
\* call has run its loop over a snapshot, a job that differs from the call's
\* job only in these fields has the same feasible nodes on that snapshot and,
\* in whatever order the snapshot is visited, the same success or failure and
\* the same minimum cost
C26_UnusedJobFields ==
    \A c \in Calls : pc[c] = "evaluated" =>
       \A k \in FieldJobs : SameButUnused(JobOf(c), k) =>
          /\ FeasibleNodes(k, nodes[c]) = FeasibleNodes(JobOf(c), nodes[c])
          /\ \A order \in IterationOrders(DOMAIN nodes[c]) :
                Outcome(evaluate(k, nodes[c], order)) =
                   Outcome(best_placement[c])

\* a DataProcessing job with 1000 GB of disk and a deadline found a node,
\* and so does the Inference job with 10 GB and no deadline
C26_Witness ==
    /\ pc[1] = "evaluated"
    /\ IsSome(best_placement[1])
    /\ JobOf(1).resources.disk_gb = 1000
    /\ JobOf(1).job_type = "DataProcessing"
    /\ JobOf(1).sla.deadline = Some(0)
    /\ Cardinality(FeasibleNodes(JobOf(1), nodes[1])) = 1
    /\ Cardinality(DOMAIN nodes[1]) = 2
    /\ \E k \in FieldJobs :
          /\ SameButUnused(JobOf(1), k)
          /\ k.resources.disk_gb = 10
          /\ k.job_type = "Inference"
          /\ k.sla.deadline = None
          /\ FeasibleNodes(k, nodes[1]) = FeasibleNodes(JobOf(1), nodes[1])

(***************************************************************************)
(* Properties of ReportResources and of the job records                    *)
(***************************************************************************)

\* the step in which a ReportResources request is answered
ReportStep ==
    /\ Len(observed') = Len(observed) + 1
    /\ observed'[Len(observed')].op = "report_resources"

\* C27: ReportResources answers received = true for every report, of a
\* registered or an unknown node, and changes neither the node registry nor
\* the job state store; a schedule call that runs its loop afterwards visits
\* the nodes with the capacities given at registration
C27_ReportIsNoOp ==
    [][ /\ ReportStep =>
              /\ observed'[Len(observed')].value = [ received |-> TRUE ]
              /\ available_nodes' = available_nodes
              /\ job_states' = job_states
        /\ \A c \in Calls : (pc[c] = "snapshot" /\ pc'[c] = "evaluated") =>
              \A id \in DOMAIN nodes[c] : nodes[c][id] \in Nodes ]_vars

\* n1 was registered with 2 cores, a report of 0 cores for n1 was
\* acknowledged, and the call that took its snapshot afterwards placed its
\* 2-core job on n1
C27_Witness ==
    /\ pc[1] = "evaluated"
    /\ IsSome(best_placement[1])
    /\ Unwrap(best_placement[1]).node_id = "n1"
    /\ JobOf(1).resources.cpu_cores = 2
    /\ Len(observed) = 1
    /\ observed[1].op = "report_resources"
    /\ observed[1].arg.node_id = "n1"
    /\ observed[1].arg.available_cpu = 0
    /\ observed[1].value.received

\* some schedule call has executed its creation step for this job id
Created(job_id) ==
    \E c \in Calls : pc[c] # "idle" /\ JobOf(c).id = job_id

\* C28: get_job_state returns None, and GetJobStatus answers NotFound,
\* exactly for the job ids for which no schedule call has executed its
\* creation step; from the creation step on they return the record of that
\* job id
C28_NotFoundIffNeverCreated ==
    /\ \A id \in JobIds :
          /\ get_job_state(id) = None <=> ~Created(id)
          /\ get_job_status(id).code = "NotFound" <=> ~Created(id)
          /\ Created(id) =>
                /\ Unwrap(get_job_state(id)).job_id = id
                /\ Unwrap(get_job_status(id).response).job_id = id
    /\ \A i \in 1..Len(observed) : observed[i].op = "get_job_state" =>
          /\ observed[i].value = None <=> ~Created(observed[i].arg)
          /\ Created(observed[i].arg) =>
                observed[i].value = Some(job_states[observed[i].arg])

\* right after the creation step of j1, a caller read j1 and got its Pending
\* record, and read j2 and got None
C28_Witness ==
    /\ pc[1] = "created"
    /\ JobOf(1).id = "j1"
    /\ Len(observed) = 2
    /\ observed[1] = [ op |-> "get_job_state", arg |-> "j1",
                       value |-> Some(PendingState("j1")) ]
    /\ observed[2] = [ op |-> "get_job_state", arg |-> "j2", value |-> None ]
    /\ get_job_status("j2").code = "NotFound"
    /\ get_job_status("j1").code = "Ok"

\* the store a facade operation needs
StoreOf(op) ==
    IF op \in {"register_node", "node_count", "cluster_status"}
    THEN "available_nodes" ELSE "job_states"

\* C29: when the mutex of a store is poisoned, every facade operation that
\* needs that store answers its caller with an internal failure: a schedule
\* call that reaches a poisoned mutex returns the error, and no other
\* operation answers with a value (0 nodes, an empty node list, no such job)
\* as if the store were healthy
C29_PoisonReported ==
    [][ /\ (/\ Len(observed') = Len(observed) + 1
            /\ lock[StoreOf(observed'[Len(observed')].op)] = Poisoned) =>
              observed'[Len(observed')].failed
        /\ \A c \in Calls :
              /\ (Returns(c) /\ lock["job_states"] = Poisoned) =>
                    result'[c] = Err(LockPoisoned)
              /\ (/\ pc[c] = "created"
                  /\ pc'[c] # "created"
                  /\ lock["available_nodes"] = Poisoned) =>
                    (Returns(c) /\ result'[c] = Err(LockPoisoned)) ]_vars

\* C30: job records are never removed and there is one record per job id:
\* once a job id has a record, after every step of every operation
\* get_job_state for that id still returns a record with that job_id
C30_RecordsRetained ==
    [][ \A id \in DOMAIN job_states :
          /\ id \in DOMAIN job_states'
          /\ IsSome(get_job_state(id)')
          /\ Unwrap(get_job_state(id)').job_id = id ]_vars

\* both calls have returned, one with a Placement and one with an error, an
\* external update has marked the placed job Failed, and both records are
\* still in the store
C30_Witness ==
    /\ pc[1] = "done" /\ result[1].kind = "ok"
    /\ pc[2] = "done" /\ result[2].kind = "err"
    /\ DOMAIN job_states = {"j1", "j2"}
    /\ job_states[JobOf(1).id].status = "Failed"
    /\ job_states[JobOf(2).id].status = "Failed"
    /\ IsSome(job_states[JobOf(1).id].assigned_node)
    /\ observed = << [ op |-> "update_job_state", arg |-> JobOf(1).id,
                       value |-> OkUnit ] >>

(***************************************************************************)
(* Properties of the registry and of the records over whole behaviours     *)
(***************************************************************************)

\* C31: a new scheduler has node_count = 0, and no operation removes a node:
\* in every step the set of registered node ids keeps all its members and
\* node_count does not decrease
C31_NodesOnlyGrow ==
    /\ node_count = 0
    /\ [][ /\ DOMAIN available_nodes \subseteq DOMAIN available_nodes'
           /\ node_count' >= node_count ]_vars

\* a call took its snapshot when only n1 was registered; since then n1 was
\* registered again with other values and n2 was added; both are registered
C31_Witness ==
    /\ pc[1] = "evaluated"
    /\ DOMAIN nodes[1] = {"n1"}
    /\ DOMAIN available_nodes = {"n1", "n2"}
    /\ nodes[1]["n1"] # available_nodes["n1"]
    /\ node_count = 2

\* the record of this job id has this status
HasStatus(id, statuses) ==
    id \in DOMAIN job_states /\ job_states[id].status \in statuses

\* no schedule call is in progress
AllReturned == \A c \in Calls : Started(c) => pc[c] = "done"

\* C32: with weak fairness and healthy locks, every record that is Pending
\* eventually becomes Scheduled or Failed; the step in which a schedule call
\* leaves its loop (or finds the registry empty) writes Scheduled or Failed
\* to its job's record; and while no schedule call is in progress no record
\* is Pending
C32_PendingResolved ==
    /\ \A id \in JobIds :
          HasStatus(id, {"Pending"}) ~> HasStatus(id, {"Scheduled", "Failed"})
    /\ [][ \A c \in Calls :
             (pc[c] \in {"snapshot", "evaluated"}
                /\ pc'[c] \in {"recorded", "done"}) =>
                job_states'[JobOf(c).id].status \in {"Scheduled", "Failed"} ]_vars
    /\ [](AllReturned => \A id \in JobIds : ~HasStatus(id, {"Pending"}))

\* a call has failed and left its record Failed; a second call for the same
\* job id has made the record Pending again and is still in progress
C32_Witness ==
    /\ pc[1] = "done" /\ result[1].kind = "err"
    /\ pc[2] = "created"
    /\ JobOf(1).id = JobOf(2).id
    /\ HasStatus(JobOf(2).id, {"Pending"})

\* the node ids listed in a response
ListedIds(response) ==
    { response.nodes[i].node_id : i \in 1..Len(response.nodes) }

\* C33: every GetClusterStatus response has total_nodes = active_nodes = the
\* number of registered nodes, lists exactly one entry per registered node
\* id, and has total_jobs = 0 and running_jobs = 0, however many jobs were
\* submitted
C33_ClusterStatus ==
    [][ (/\ Len(observed') = Len(observed) + 1
         /\ observed'[Len(observed')].op = "get_cluster_status") =>
           LET response == observed'[Len(observed')].value
           IN  /\ response.total_nodes = Cardinality(DOMAIN available_nodes)
               /\ response.active_nodes = response.total_nodes
               /\ Len(response.nodes) = response.total_nodes
               /\ ListedIds(response) = DOMAIN available_nodes
               /\ response.total_jobs = 0
               /\ response.running_jobs = 0 ]_vars

\* two jobs were submitted, one is Scheduled; the response lists the two
\* registered nodes and reports no jobs
C33_Witness ==
    /\ DOMAIN job_states = {"j1", "j2"}
    /\ \E id \in JobIds : job_states[id].status = "Scheduled"
    /\ Len(observed) = 1
    /\ observed[1].op = "get_cluster_status"
    /\ observed[1].value.total_nodes = 2
    /\ observed[1].value.active_nodes = 2
    /\ ListedIds(observed[1].value) = {"n1", "n2"}
    /\ observed[1].value.total_jobs = 0
    /\ observed[1].value.running_jobs = 0

(***************************************************************************)
(* Properties of the job records under concurrent schedule calls (Spec)    *)
(***************************************************************************)

\* the record of a job scheduled with this Placement
ScheduledState(placement) ==
    [ job_id         |-> placement.job_id,
      status         |-> "Scheduled",
      assigned_node  |-> Some(placement.node_id),
      estimated_cost |-> Some(placement.estimated_cost) ]

\* C34: also when two schedule calls for the same job id overlap, the step
\* in which a call returns a Placement leaves the job's record Scheduled on
\* the returned node with the returned cost, and no later step of another
\* call leaves that record Pending or Failed
C34_PlacementSurvivesSameId ==
    [][ \A c \in Calls :
          /\ ReturnsPlacement(c) =>
                job_states'[JobOf(c).id] = ScheduledState(Returned(c))
          /\ HasPlacement(c) =>
                job_states'[JobOf(c).id].status \notin {"Pending", "Failed"}
      ]_vars

\* C35: in every state reached by register_node and schedule calls, a job
\* record with status Failed or Pending has no assigned node and no
\* estimated cost
C35_UnplacedRecordsBare ==
    \A id \in DOMAIN job_states :
       job_states[id].status \in {"Failed", "Pending"} =>
          /\ job_states[id].assigned_node = None
          /\ job_states[id].estimated_cost = None

\* C36: in every state reached by register_node and schedule calls, a job
\* record with status Scheduled has an assigned node, and that node is
\* registered
C36_ScheduledOnRegisteredNode ==
    \A id \in DOMAIN job_states :
       job_states[id].status = "Scheduled" =>
          /\ IsSome(job_states[id].assigned_node)
          /\ Unwrap(job_states[id].assigned_node) \in DOMAIN available_nodes

\* two calls for the same job id overlap: the second has reset the record
\* and the first has written Scheduled on n1 after that; n2 was registered
\* after the first call's snapshot
C36_Witness ==
    /\ pc[1] = "recorded"
    /\ pc[2] = "created"
    /\ JobOf(1).id = JobOf(2).id
    /\ job_states[JobOf(1).id].status = "Scheduled"
    /\ job_states[JobOf(1).id].assigned_node = Some("n1")
    /\ DOMAIN nodes[1] = {"n1"}
    /\ DOMAIN available_nodes = {"n1", "n2"}

(***************************************************************************)
(* Properties of the worker agent (AgentSpec)                              *)
(***************************************************************************)

\* the last connect call of the agent has returned
ConnectReturned == agent.connected # "none" /\ agent.pc \notin {"connect", "sleep"}

\* C37: connect makes at most max_retries connection attempts; it returns
\* Ok with the client stored at the first successful attempt, every earlier
\* attempt having failed and been followed by one delay; it returns an error
\* after exactly max_retries failed attempts with no delay after the last
\* one; with max_retries = 0 it fails without an attempt
C37_ConnectRetries ==
    /\ agent.attempts <= agent.max_retries
    /\ agent.pc = "sleep" => agent.attempts < agent.max_retries
    /\ agent.pc = "sleep" => agent.sleeps = agent.attempts - 1
    /\ (agent.pc = "connect" /\ agent.attempt <= agent.max_retries) =>
          agent.sleeps = agent.attempts
    /\ (ConnectReturned /\ agent.connected = "ok") =>
          /\ IsSome(agent.client)
          /\ agent.attempts >= 1
          /\ agent.sleeps = agent.attempts - 1
    /\ (ConnectReturned /\ agent.connected = "err") =>
          /\ agent.attempts = agent.max_retries
          /\ agent.sleeps = IF agent.max_retries = 0 THEN 0
                            ELSE agent.max_retries - 1
    /\ (ConnectReturned /\ agent.max_retries = 0) =>
          agent.connected = "err" /\ agent.attempts = 0

\* with a ceiling of 3 the first connect has returned Ok at its third
\* attempt, after two delays
C37_Witness ==
    /\ agent.pc = "register"
    /\ agent.site = "init"
    /\ agent.max_retries = 3
    /\ agent.connected = "ok"
    /\ agent.attempts = 3
    /\ agent.sleeps = 2
    /\ IsSome(agent.client)

\* the agent is in the report loop of run
InLoop == agent.pc \in {"tick", "report"} \/ agent.site = "loop"

\* C38: the agent enters the report loop only by a successful register that
\* follows a successful first connect, and a failure of either ends run; in
\* the loop a failed report starts a reconnect, register is called again
\* only when that reconnect succeeded, no failure of report, reconnect or
\* re-register ends run, and the agent reports again and again
C38_ReportLoop ==
    /\ [][ /\ (~InLoop /\ InLoop') =>
                 /\ agent.pc = "register"
                 /\ agent.connected = "ok"
                 /\ agent'.registered = "ok"
           /\ (/\ agent.site = "init"
               /\ \/ agent.pc = "connect" /\ agent'.connected = "err"
                  \/ agent.pc = "register" /\ agent'.registered = "err") =>
                 agent'.pc = "failed"
           /\ (agent.pc = "report" /\ agent'.pc # "tick") =>
                 /\ agent'.reported = "err"
                 /\ agent'.pc = "connect"
                 /\ agent'.attempts = 0
           /\ (InLoop /\ agent.pc # "register" /\ agent'.pc = "register") =>
                 agent.pc = "connect" /\ agent'.connected = "ok"
           /\ InLoop => (InLoop' /\ agent'.pc # "failed") ]_vars
    /\ [](agent.pc = "report" => IsSome(agent.client))
    /\ [](InLoop => <>(agent.pc = "report"))
    /\ (agent.pc = "tick") ~> (agent.pc = "report")

\* in the loop a report failed, the reconnect succeeded, the re-register
\* failed, and the agent is reporting again
C38_Witness ==
    /\ agent.pc = "report"
    /\ agent.site = "loop"
    /\ agent.reported = "err"
    /\ agent.connected = "ok"
    /\ agent.registered = "err"
    /\ agent.attempts = 2

(***************************************************************************)
(* Properties of the job executor (ExecSpec)                               *)
(***************************************************************************)

\* C39: when execute_job has returned, the container it created, if any,
\* is no longer held by the Docker daemon, whichever step failed
C39_ContainerRemoved ==
    (executor.pc = "returned" /\ IsSome(executor.created)) =>
       Unwrap(executor.created) \notin docker
====
